---- MODULE Spec2Model ----
(***************************************************************************)
(* Model of the powercap controller (menraromial/powercap): the power      *)
(* Manager (src/internal/config/config.go, package power), the CSV data    *)
(* store (src/internal/datastore/csv_store.go), the market-based           *)
(* calculator (src/unnamed/part_007) and the RAPL manager                  *)
(* (src/unnamed/part_006).                                                 *)
(*                                                                         *)
(* Units: power in microwatts (int64 in the code); volumes in 1/100 MWh    *)
(* and prices in 1/1000 EUR/MWh, so that the CSV formatting to 1 and 2     *)
(* decimals is a real rounding (to a multiple of 10).                      *)
(***************************************************************************)
EXTENDS Integers, Sequences, FiniteSets, TLC

(***************************************************************************)
(* Bounds of the model.                                                    *)
(***************************************************************************)
\* Last calendar day the wall clock reaches (the process starts on day 1).
MaxDay == 3
\* Adjustment cycles one run of the controller starts (the initial one
\* included) before the model stops following it.
MaxCycles == 2
\* Largest number of points of a dataset saved and loaded back.
MaxRows == 2
\* Largest number of entries of the RAPL base directory at discovery.
MaxEntries == 2

(***************************************************************************)
(* Period labels.  The label "hh:mm-HH:MM" is the tuple <<hh, mm, HH, MM>>. *)
(***************************************************************************)
Label(h1, m1, h2, m2) == <<h1, m1, h2, m2>>

\* GetCurrentPeriod: the 15-minute bucket label of a wall-clock time.
GetCurrentPeriod(hour, minute) ==
    LET periodStart == (minute \div 15) * 15
        periodEnd   == periodStart + 15
    IN  IF periodEnd = 60
          THEN Label(hour, periodStart, (hour + 1) % 24, 0)
          ELSE IF hour = 23 /\ periodStart = 45
                 THEN Label(23, 45, 24, 0)
                 ELSE Label(hour, periodStart, hour, periodEnd)

\* Times of day the wall clock passes through, in order: <<hour, minute>>.
Times == << <<12, 7>>, <<23, 50>> >>
NTimes == Len(Times)

PeriodAt(t) == GetCurrentPeriod(Times[t][1], Times[t][2])

(***************************************************************************)
(* Market data.  A MarketDataPoint is [Period, Volume, Price].             *)
(***************************************************************************)
Point(p, v, pr) == [Period |-> p, Volume |-> v, Price |-> pr]

\* Scenario A of the specification: 66.3 MWh @ 31.91 and 93.8 MWh @ 42.15.
DataA == << Point(Label(0, 0, 0, 15), 6630, 31910),
            Point(Label(12, 0, 12, 15), 9380, 42150) >>
\* A day whose values carry more decimals than the CSV keeps.
DataB == << Point(Label(12, 0, 12, 15), 8004, 45678),
            Point(Label(18, 0, 18, 15), 8996, 55304),
            Point(Label(23, 45, 24, 0), 5000, 12300) >>
\* A day on which nothing was traded: every volume is zero.
DataZ == << Point(Label(12, 0, 12, 15), 0, 0) >>
\* A scrape that yields the same period twice.
DataDup == << Point(Label(12, 0, 12, 15), 4000, 20000),
              Point(Label(12, 0, 12, 15), 8000, 30000) >>

\* What a provider's FetchData may return on success (non-empty or empty).
FetchResults == {DataA, DataB, <<>>}

(***************************************************************************)
(* CSV persistence: saveToCSV formats the volume with 1 decimal and the    *)
(* price with 2 decimals; loadFromCSV parses them back.                    *)
(***************************************************************************)
\* strconv.FormatFloat(x, 'f', n, 64): round to the nearest multiple of 10
\* of the model's unit (ties do not occur in the data of this model).
RoundTo10(x) == IF x >= 0 THEN ((x + 5) \div 10) * 10
                          ELSE -(((-x + 5) \div 10) * 10)

\* A faulty variant: the values are written as they are.
FormatRow_Unrounded(pt) == pt

FormatRow(pt) == Point(pt.Period, RoundTo10(pt.Volume), RoundTo10(pt.Price))

\* The rows saveToCSV writes below the header.
FormatRows(data) == [i \in 1..Len(data) |-> FormatRow(data[i])]

\* A file of the data directory.  header: the header row was written;
\* rows: the records below it.
File(h, rows) == [exists |-> TRUE, header |-> h, rows |-> rows]
NoFile == [exists |-> FALSE, header |-> FALSE, rows |-> <<>>]
\* What a complete saveToCSV leaves behind.
SavedFile(data) == File(TRUE, FormatRows(data))
\* What a saveToCSV leaves whose os.Create worked and whose writes failed.
TruncatedFile == File(FALSE, <<>>)

\* loadFromCSV fails when the file cannot be opened or holds fewer than two
\* records (header included).
CanLoad(f) == f.exists /\ (IF f.header THEN 1 ELSE 0) + Len(f.rows) >= 2
\* loadFromCSV's result: the records below the first one, parsed.
loadFromCSV(f) == IF f.header THEN f.rows ELSE Tail(f.rows)

(***************************************************************************)
(* updateMaxVolume: the largest volume of the dataset, 0.0 if none is      *)
(* positive.  updateMaxVolumeStep is one iteration of its loop.            *)
(***************************************************************************)
\* A faulty variant: the volume of the point is kept whatever it is.
updateMaxVolumeStep_KeepsLast(acc, pt) == pt.Volume

updateMaxVolumeStep(acc, pt) == IF pt.Volume > acc THEN pt.Volume ELSE acc

RECURSIVE ScanMaxVolume(_, _, _)
ScanMaxVolume(data, i, acc) ==
    IF i > Len(data) THEN acc
    ELSE ScanMaxVolume(data, i + 1, updateMaxVolumeStep(acc, data[i]))

updateMaxVolume(data) == ScanMaxVolume(data, 1, 0)

(***************************************************************************)
(* The market-based calculator (rule of three).                            *)
(***************************************************************************)
\* The volume of the first point whose period is the current one, 0.0 if
\* there is none (var currentVolume float64; for ... break).
RECURSIVE FindVolume(_, _, _)
FindVolume(data, period, i) ==
    IF i > Len(data) THEN 0
    ELSE IF data[i].Period = period THEN data[i].Volume
    ELSE FindVolume(data, period, i + 1)

\* int64(math.Round((currentVolume / maxVolume) * maxSource)) for
\* currentVolume >= 0, maxVolume > 0, maxSource >= 0: the exact quotient
\* rounded half away from zero, computed without leaving 32 bits.
\* A faulty variant: the ratio alone, not scaled by maxSource.
RuleOfThree_RatioOnly(currentVolume, maxVolume, maxSource) ==
    (2 * currentVolume + maxVolume) \div (2 * maxVolume)

RuleOfThree(currentVolume, maxVolume, maxSource) ==
    LET q == maxSource \div maxVolume
        r == maxSource % maxVolume
    IN  currentVolume * q + ((2 * currentVolume * r + maxVolume) \div (2 * maxVolume))

\* MarketBasedCalculator.CalculatePower(maxSource, currentTime, data): the
\* max volume is recomputed from the dataset.
CalculatePower(maxSource, period, data) ==
    LET currentVolume == FindVolume(data, period, 1)
        maxVolume     == ScanMaxVolume(data, 1, 0)
    IN  IF currentVolume = 0 THEN 0
        ELSE IF maxVolume = 0 THEN 0
        ELSE RuleOfThree(currentVolume, maxVolume, maxSource)

\* CalculatePower(maxSource, maxVolume, currentTime, data) as the Manager
\* calls it: the day's max volume is the one the caller passes in.
CalculatePowerWithMax(maxSource, maxVolume, period, data) ==
    LET currentVolume == FindVolume(data, period, 1)
    IN  IF currentVolume = 0 THEN 0
        ELSE IF maxVolume = 0 THEN 0
        ELSE RuleOfThree(currentVolume, maxVolume, maxSource)

(***************************************************************************)
(* Strings of the node annotations and of the RAPL files.  A string is     *)
(* <<"int", n>> when it is the decimal form of n, <<"text", k>> otherwise.  *)
(***************************************************************************)
FormatInt(n) == <<"int", n>>
Text(k) == <<"text", k>>
\* strconv.ParseInt(s, 10, 64)
ParseIntOk(s) == s[1] = "int"
ParseInt(s) == s[2]

Garbage == Text(0)
\* pm.config.DataProvider
DataProvider == Text(1)
\* "kcas-power-manager"
InitializedValue == Text(2)

InitializationAnnotation == "power-manager/initialized"
MaxPowerAnnotation == "rapl/max_power_uw"
PmaxAnnotation == "rapl/pmax"

\* m[k] = v added to, or replaced in, the map m.
Put(m, k, v) == [x \in DOMAIN m \cup {k} |-> IF x = k THEN v ELSE m[x]]
NoAnnotations == [x \in {} |-> Garbage]

(***************************************************************************)
(* RAPL manager.                                                           *)
(***************************************************************************)
\* One pass of FindMaxPowerValue over a list of constraint values.
RECURSIVE MaxOfValues(_, _, _)
MaxOfValues(values, i, maxPower) ==
    IF i > Len(values) THEN maxPower
    ELSE MaxOfValues(values, i + 1,
           IF ParseIntOk(values[i]) /\ ParseInt(values[i]) > maxPower
             THEN ParseInt(values[i]) ELSE maxPower)

\* FindMaxPowerValue: over Constraints, then ConstraintsMax; 0 stands for
\* the error "no valid max power values found".
FindMaxPowerValue(domain) ==
    MaxOfValues(domain.ConstraintsMax, 1, MaxOfValues(domain.Constraints, 1, 0))

\* The domains DiscoverDomains may have found (Value as read at discovery;
\* an unreadable file is recorded as "0").
DomainNormal == [Constraints    |-> <<FormatInt(20000000)>>,
                 ConstraintsMax |-> <<FormatInt(35000000), Garbage>>]
DomainUnreadable == [Constraints    |-> <<FormatInt(0)>>,
                     ConstraintsMax |-> <<Garbage, FormatInt(0)>>]

(***************************************************************************)
(* Manager helpers.                                                        *)
(***************************************************************************)
\* A faulty variant: the marker is never recognised.
isNodeInitialized_Never(ann) == FALSE

isNodeInitialized(ann) == InitializationAnnotation \in DOMAIN ann

\* A faulty variant: the value found is not checked to be a number.
getMaxPowerValueOk_PresentOnly(ann) == MaxPowerAnnotation \in DOMAIN ann

\* getMaxPowerValue fails when the annotation is missing or does not parse.
getMaxPowerValueOk(ann) ==
    MaxPowerAnnotation \in DOMAIN ann /\ ParseIntOk(ann[MaxPowerAnnotation])
getMaxPowerValue(ann) == ParseInt(ann[MaxPowerAnnotation])

\* A faulty variant: twice the floor is substituted.
SubstituteFloor_Doubled(sourcePower, raplLimit) ==
    IF sourcePower = 0 THEN 2 * raplLimit ELSE sourcePower

\* if sourcePower == 0 { sourcePower = pm.config.RaplLimit }
SubstituteFloor(sourcePower, raplLimit) ==
    IF sourcePower = 0 THEN raplLimit ELSE sourcePower

\* A faulty variant: the test against the node's max power is missing.
ClampPower_NoCeiling(sourcePower, maxPower, raplLimit) ==
    IF sourcePower > raplLimit THEN sourcePower ELSE raplLimit

\* A faulty variant: the floor is tested first.
ClampPower_FloorFirst(sourcePower, maxPower, raplLimit) ==
    IF sourcePower <= raplLimit THEN raplLimit
    ELSE IF sourcePower > maxPower THEN maxPower
    ELSE sourcePower

\* var pmax int64 = RaplLimit; if sourcePower > maxPower {..} else if ..
ClampPower(sourcePower, maxPower, raplLimit) ==
    IF sourcePower > maxPower THEN maxPower
    ELSE IF sourcePower > raplLimit THEN sourcePower
    ELSE raplLimit

(***************************************************************************)
(* State.                                                                  *)
(***************************************************************************)
VARIABLES
    config,        \* Config: [RaplLimit], immutable after startup
    domain,        \* rapl.Manager.domains: the discovered domain
    limits,        \* content of the constraint_*_power_limit_uw files
    annotations,   \* the remote node's annotations
    files,         \* the data directory: day -> file
    currentData,   \* CSVDataStore.currentData
    maxVolume,     \* CSVDataStore.maxVolume
    clock,         \* wall clock: [day, t], t an index of Times
    pc,            \* position of the main goroutine
    load,          \* locals of LoadData
    cycle,         \* locals of the AdjustPowerCap call in progress
    tickPending,   \* a tick is waiting in ticker.C
    cancelled,     \* pm.ctx is done
    nodeModified,  \* the node was updated by someone else since getNode
                   \* read it: its resourceVersion is not the one read
    rpc,           \* position of the RefreshData call in progress
    ref,           \* locals of that RefreshData call and of its caller
    cycles,        \* AdjustPowerCap calls started since Run was entered
    wroteRemote,   \* the last step of the main goroutine called updateNode
    initOutcome,   \* what the last InitializeNode did
    runStartDay,   \* the day on which Run was entered
    attempted,     \* days for which the midnight goroutine called RefreshData
    args,          \* arguments of a call of the calculator on its own
    result         \* what that call returned

vars == <<config, domain, limits, annotations, files, currentData, maxVolume,
          clock, pc, load, cycle, tickPending, cancelled, rpc, ref,
          cycles, wroteRemote, initOutcome, runStartDay, attempted,
          nodeModified, args, result>>

Days == 0..MaxDay

\* The node as a previous run of the controller left it.
InitializedBefore(maxPowerValue) ==
    [k \in {MaxPowerAnnotation, PmaxAnnotation, "rapl/provider",
            InitializationAnnotation} |->
        CASE k = MaxPowerAnnotation -> maxPowerValue
          [] k = PmaxAnnotation -> FormatInt(20000000)
          [] k = "rapl/provider" -> DataProvider
          [] OTHER -> InitializedValue]

\* A deployment: RAPL_MIN_POWER, the domain found at discovery, the node's
\* annotations and the files of yesterday and of today in the data directory.
Deployment(floor, dom, ann, yesterday, today) ==
    [RaplLimit |-> floor, domain |-> dom, annotations |-> ann,
     yesterday |-> yesterday, today |-> today]

\* The deployments considered:
\*  - a restart on an initialized node, with the file of today at hand;
\*  - the same with a floor above the node's max power;
\*  - a first start on a fresh node whose file of today holds no record;
\*  - a first start on a machine whose RAPL values are all unusable;
\*  - a restart on a node whose max power annotation does not parse, with
\*    the file of yesterday only;
\*  - the same with no file at all.
Deployments ==
    { Deployment(10000000, DomainNormal, InitializedBefore(FormatInt(35000000)),
                 SavedFile(DataA), SavedFile(DataB)),
      Deployment(36000000, DomainNormal, InitializedBefore(FormatInt(35000000)),
                 NoFile, SavedFile(DataB)),
      Deployment(10000000, DomainNormal, NoAnnotations,
                 NoFile, TruncatedFile),
      Deployment(10000000, DomainUnreadable, NoAnnotations,
                 SavedFile(DataA), SavedFile(DataB)),
      Deployment(10000000, DomainNormal, InitializedBefore(Garbage),
                 SavedFile(DataA), NoFile),
      Deployment(10000000, DomainNormal, InitializedBefore(Garbage),
                 NoFile, NoFile) }

IdleLoad == [day |-> 0, found |-> FALSE, refreshed |-> "none", path |-> 0,
             result |-> "none", data0 |-> <<>>, mv0 |-> 0]

IdleCycle == [node |-> NoAnnotations, period |-> Label(0, 0, 0, 0),
              data |-> <<>>, maxVolume |-> 0, maxPower |-> 0, calc |-> 0,
              sourcePower |-> 0, pmax |-> 0]

IdleRef == [caller |-> "none", day |-> 0, data |-> <<>>, i |-> 0, pass |-> 0,
            result |-> "none", data0 |-> <<>>, mv0 |-> 0]

\* The state after NewManager has returned on deployment d: configuration
\* loaded, domains discovered, an empty data store bound to the provider.
NewManager(d) ==
    /\ config = [RaplLimit |-> d.RaplLimit]
    /\ domain = d.domain
    /\ limits = [i \in 1..Len(d.domain.Constraints) |->
                    ParseInt(d.domain.Constraints[i])]
    /\ annotations = d.annotations
    /\ files = [day \in Days |-> IF day = 0 THEN d.yesterday
                                ELSE IF day = 1 THEN d.today ELSE NoFile]
    /\ currentData = <<>>
    /\ maxVolume = 0
    /\ clock = [day |-> 1, t |-> 1]
    /\ pc = "LoadData"
    /\ load = IdleLoad
    /\ cycle = IdleCycle
    /\ tickPending = FALSE
    /\ cancelled = FALSE
    /\ nodeModified = FALSE
    /\ rpc = "idle"
    /\ ref = IdleRef
    /\ cycles = 0
    /\ wroteRemote = FALSE
    /\ initOutcome = "none"
    /\ runStartDay = 0
    /\ attempted = {}

\* No call of the calculator on its own.
NoCall == [maxSource |-> 0, time |-> <<0, 0>>, data |-> <<>>]
NotReturned == <<>>

Init ==
    /\ \E d \in Deployments : NewManager(d)
    /\ args = NoCall
    /\ result = NotReturned

calculator == <<args, result>>
hardware == <<domain, limits>>
store == <<currentData, maxVolume>>
environment == <<clock, cancelled, tickPending>>
ghosts == <<cycles, initOutcome, runStartDay, attempted>>

(***************************************************************************)
(* CSVDataStore.RefreshData(date), step by step.  It runs in the main      *)
(* goroutine when LoadData calls it (ref.caller = "load") and in the       *)
(* goroutine of scheduleDailyDataRefresh (ref.caller = "midnight").        *)
(***************************************************************************)
\* Entry of RefreshData(day) on behalf of caller.
StartRefresh(caller, day) ==
    [caller |-> caller, day |-> day, data |-> <<>>, i |-> 0, pass |-> 0,
     result |-> "none", data0 |-> currentData, mv0 |-> maxVolume]

\* RefreshData returns an error.
RefreshReturnsError ==
    /\ rpc' = "done"
    /\ ref' = [IdleRef EXCEPT !.caller = ref.caller, !.result = "failed",
                              !.data0 = ref.data0, !.mv0 = ref.mv0]

\* provider.FetchData fails.
FetchDataError ==
    /\ rpc = "fetch"
    /\ RefreshReturnsError
    /\ UNCHANGED <<calculator, nodeModified, config, hardware, annotations, files, store, environment,
                   pc, load, cycle, wroteRemote, ghosts>>

\* provider.FetchData returns data; an empty result is an error.
FetchDataReturns ==
    /\ rpc = "fetch"
    /\ \E data \in FetchResults :
          IF Len(data) = 0
            THEN RefreshReturnsError
            ELSE /\ rpc' = "save"
                 /\ ref' = [ref EXCEPT !.data = data]
    /\ UNCHANGED <<calculator, nodeModified, config, hardware, annotations, files, store, environment,
                   pc, load, cycle, wroteRemote, ghosts>>

\* A faulty variant: the cache is replaced before saveToCSV is attempted.
SaveDataError_CacheFirst ==
    /\ rpc = "save"
    /\ currentData' = ref.data
    /\ RefreshReturnsError
    /\ UNCHANGED <<calculator, nodeModified, config, hardware, annotations, files, maxVolume,
                   environment, pc, load, cycle, wroteRemote, ghosts>>

\* SaveData: saveToCSV fails, either before the file is created or after
\* (the file is then left truncated); SaveData returns the error at once.
SaveDataError ==
    /\ rpc = "save"
    /\ \/ UNCHANGED files
       \/ files' = [files EXCEPT ![ref.day] = TruncatedFile]
    /\ RefreshReturnsError
    /\ UNCHANGED <<calculator, nodeModified, config, hardware, annotations, store, environment,
                   pc, load, cycle, wroteRemote, ghosts>>

\* SaveData: saveToCSV succeeds.
SaveDataWrites ==
    /\ rpc = "save"
    /\ files' = [files EXCEPT ![ref.day] = SavedFile(ref.data)]
    /\ rpc' = "setData"
    /\ ref' = [ref EXCEPT !.pass = 1]
    /\ UNCHANGED <<calculator, nodeModified, config, hardware, annotations, store, environment,
                   pc, load, cycle, wroteRemote, ghosts>>

\* SaveData: ds.currentData = data
SetCurrentData ==
    /\ rpc = "setData"
    /\ currentData' = ref.data
    /\ rpc' = "zeroMax"
    /\ UNCHANGED <<calculator, nodeModified, config, hardware, annotations, files, maxVolume, environment,
                   pc, load, cycle, ref, wroteRemote, ghosts>>

\* updateMaxVolume: ds.maxVolume = 0.0
ZeroMaxVolume ==
    /\ rpc = "zeroMax"
    /\ maxVolume' = 0
    /\ rpc' = "scan"
    /\ ref' = [ref EXCEPT !.i = 1]
    /\ UNCHANGED <<calculator, nodeModified, config, hardware, annotations, files, currentData, environment,
                   pc, load, cycle, wroteRemote, ghosts>>

\* updateMaxVolume: one iteration of the loop over the points.  After the
\* last one SaveData returns to RefreshData, which assigns the same data to
\* ds.currentData once more (no change) and calls updateMaxVolume again;
\* after the last one of that second pass RefreshData returns nil.
ScanPoint ==
    /\ rpc = "scan"
    /\ maxVolume' = updateMaxVolumeStep(maxVolume, ref.data[ref.i])
    /\ IF ref.i < Len(ref.data)
         THEN /\ rpc' = "scan"
              /\ ref' = [ref EXCEPT !.i = ref.i + 1]
         ELSE IF ref.pass = 1
                THEN /\ rpc' = "zeroMax"
                     /\ ref' = [ref EXCEPT !.pass = 2]
                ELSE /\ rpc' = "done"
                     /\ ref' = [IdleRef EXCEPT !.caller = ref.caller,
                                              !.result = "ok"]
    /\ UNCHANGED <<calculator, nodeModified, config, hardware, annotations, files, currentData, environment,
                   pc, load, cycle, wroteRemote, ghosts>>

(***************************************************************************)
(* main: pm.LoadData(today) -> CSVDataStore.LoadData.                      *)
(***************************************************************************)
\* os.Stat finds the file of today: it is loaded.
LoadDataFound ==
    /\ pc = "LoadData"
    /\ files[clock.day].exists
    /\ load' = [IdleLoad EXCEPT !.day = clock.day, !.found = TRUE,
                                !.path = clock.day,
                                !.data0 = currentData, !.mv0 = maxVolume]
    /\ pc' = "LoadCSV"
    /\ wroteRemote' = FALSE
    /\ UNCHANGED <<calculator, nodeModified, config, hardware, annotations, files, store, environment,
                   cycle, rpc, ref, ghosts>>

\* The file of today does not exist: RefreshData(today) is called.
LoadDataMissing ==
    /\ pc = "LoadData"
    /\ ~files[clock.day].exists
    /\ load' = [IdleLoad EXCEPT !.day = clock.day, !.path = clock.day,
                                !.data0 = currentData, !.mv0 = maxVolume]
    /\ ref' = StartRefresh("load", clock.day)
    /\ rpc' = "fetch"
    /\ pc' = "LoadRefresh"
    /\ wroteRemote' = FALSE
    /\ UNCHANGED <<calculator, nodeModified, config, hardware, annotations, files, store, environment,
                   cycle, ghosts>>

\* A faulty variant: after a failed refresh the file of today is tried again.
LoadDataRefreshed_NoFallback ==
    /\ pc = "LoadRefresh"
    /\ rpc = "done"
    /\ load' = [load EXCEPT !.refreshed = ref.result]
    /\ pc' = "LoadCSV"
    /\ wroteRemote' = FALSE
    /\ UNCHANGED <<calculator, nodeModified, config, hardware, annotations, files, store,
                   environment, cycle, rpc, ref, ghosts>>

\* RefreshData has returned to LoadData; on an error the file of yesterday
\* becomes the one to load.
LoadDataRefreshed ==
    /\ pc = "LoadRefresh"
    /\ rpc = "done"
    /\ load' = [load EXCEPT !.refreshed = ref.result,
                             !.path = IF ref.result = "failed"
                                        THEN load.day - 1 ELSE load.day]
    /\ pc' = "LoadCSV"
    /\ wroteRemote' = FALSE
    /\ UNCHANGED <<calculator, nodeModified, config, hardware, annotations, files, store, environment,
                   cycle, rpc, ref, ghosts>>

\* loadFromCSV(filePath) succeeds: the data is cached.
LoadCSVOk ==
    /\ pc = "LoadCSV"
    /\ CanLoad(files[load.path])
    /\ currentData' = loadFromCSV(files[load.path])
    /\ maxVolume' = updateMaxVolume(loadFromCSV(files[load.path]))
    /\ load' = [load EXCEPT !.result = "ok"]
    /\ pc' = "InitializeNode"
    /\ rpc' = "idle"
    /\ ref' = IdleRef
    /\ wroteRemote' = FALSE
    /\ UNCHANGED <<calculator, nodeModified, config, hardware, annotations, files, environment,
                   cycle, ghosts>>

\* A faulty variant: main treats the error of LoadData as fatal.
LoadCSVError_Fatal ==
    /\ pc = "LoadCSV"
    /\ ~CanLoad(files[load.path])
    /\ load' = [load EXCEPT !.result = "failed"]
    /\ pc' = "fatal"
    /\ rpc' = "idle"
    /\ ref' = IdleRef
    /\ wroteRemote' = FALSE
    /\ UNCHANGED <<calculator, nodeModified, config, hardware, annotations,
                   files, store, environment, cycle, ghosts>>

\* loadFromCSV(filePath) fails: LoadData returns the error, main logs it.
LoadCSVError ==
    /\ pc = "LoadCSV"
    /\ ~CanLoad(files[load.path])
    /\ load' = [load EXCEPT !.result = "failed"]
    /\ pc' = "InitializeNode"
    /\ rpc' = "idle"
    /\ ref' = IdleRef
    /\ wroteRemote' = FALSE
    /\ UNCHANGED <<calculator, nodeModified, config, hardware, annotations, files, store, environment,
                   cycle, ghosts>>

(***************************************************************************)
(* main: pm.InitializeNode().  A failure is fatal (logger.Fatalf).         *)
(***************************************************************************)
\* getNode fails.
InitializeNodeGetFails ==
    /\ pc = "InitializeNode"
    /\ pc' = "fatal"
    /\ initOutcome' = "get-failed"
    /\ wroteRemote' = FALSE
    /\ load' = IdleLoad
    /\ UNCHANGED <<calculator, nodeModified, config, hardware, annotations, files, store, environment,
                   cycle, rpc, ref, cycles, runStartDay, attempted>>

\* The node carries the initialization annotation: nothing to do.
InitializeNodeSkips ==
    /\ pc = "InitializeNode"
    /\ isNodeInitialized(annotations)
    /\ pc' = "Run"
    /\ initOutcome' = "skipped"
    /\ wroteRemote' = FALSE
    /\ load' = IdleLoad
    /\ UNCHANGED <<calculator, nodeModified, config, hardware, annotations, files, store, environment,
                   cycle, rpc, ref, cycles, runStartDay, attempted>>

\* FindMaxPowerValue finds no valid value.
InitializeNodeNoMax ==
    /\ pc = "InitializeNode"
    /\ ~isNodeInitialized(annotations)
    /\ FindMaxPowerValue(domain) = 0
    /\ pc' = "fatal"
    /\ initOutcome' = "no-max"
    /\ wroteRemote' = FALSE
    /\ load' = IdleLoad
    /\ UNCHANGED <<calculator, nodeModified, config, hardware, annotations, files, store, environment,
                   cycle, rpc, ref, cycles, runStartDay, attempted>>

\* A faulty variant: the marker is not set.
InitializedNode_NoMarker(node, maxPower) ==
    Put(Put(Put(node, MaxPowerAnnotation, FormatInt(maxPower)),
            PmaxAnnotation, FormatInt(maxPower)),
        "rapl/provider", DataProvider)

\* The node object InitializeNode hands to updateNode.
InitializedNode(node, maxPower) ==
    Put(Put(Put(Put(node, MaxPowerAnnotation, FormatInt(maxPower)),
                PmaxAnnotation, FormatInt(maxPower)),
            "rapl/provider", DataProvider),
        InitializationAnnotation, InitializedValue)

\* A faulty variant: the marker is sent in an update of its own, before the
\* other annotations are set.
InitializeNodeWrites_MarkerFirst ==
    /\ pc = "InitializeNode"
    /\ ~isNodeInitialized(annotations)
    /\ FindMaxPowerValue(domain) # 0
    /\ annotations' = Put(annotations, InitializationAnnotation,
                          InitializedValue)
    /\ initOutcome' = "written"
    /\ wroteRemote' = TRUE
    /\ load' = IdleLoad
    /\ UNCHANGED <<calculator, nodeModified, config, hardware, files, store,
                   environment, pc, cycle, rpc, ref, cycles, runStartDay,
                   attempted>>

\* The annotations are set and markNodeAsInitialized updates the node.
InitializeNodeWrites ==
    /\ pc = "InitializeNode"
    /\ ~isNodeInitialized(annotations)
    /\ FindMaxPowerValue(domain) # 0
    /\ \/ /\ annotations' = InitializedNode(annotations, FindMaxPowerValue(domain))
          /\ pc' = "Run"
          /\ initOutcome' = "written"
       \/ /\ UNCHANGED annotations
          /\ pc' = "fatal"
          /\ initOutcome' = "update-failed"
    /\ wroteRemote' = TRUE
    /\ load' = IdleLoad
    /\ UNCHANGED <<calculator, nodeModified, config, hardware, files, store, environment,
                   cycle, rpc, ref, cycles, runStartDay, attempted>>

(***************************************************************************)
(* Manager.Run and Manager.AdjustPowerCap.                                 *)
(***************************************************************************)
\* A faulty variant: Run goes to its loop without an initial adjustment.
Run_WaitsForTick ==
    /\ pc = "Run"
    /\ tickPending' = FALSE
    /\ rpc' = "sleep"
    /\ ref' = [IdleRef EXCEPT !.caller = "midnight", !.day = clock.day + 1]
    /\ runStartDay' = clock.day
    /\ attempted' = {}
    /\ cycles' = 0
    /\ pc' = "select"
    /\ wroteRemote' = FALSE
    /\ UNCHANGED <<calculator, nodeModified, config, hardware, annotations,
                   files, store, clock, cancelled, load, cycle, initOutcome>>

\* Run: the ticker is created, scheduleDailyDataRefresh starts the goroutine
\* that sleeps until the next midnight, and the initial adjustment begins.
Run ==
    /\ pc = "Run"
    /\ tickPending' = FALSE
    /\ rpc' = "sleep"
    /\ ref' = [IdleRef EXCEPT !.caller = "midnight", !.day = clock.day + 1]
    /\ runStartDay' = clock.day
    /\ attempted' = {}
    /\ cycles' = 1
    /\ pc' = "getNode"
    /\ wroteRemote' = FALSE
    /\ UNCHANGED <<calculator, nodeModified, config, hardware, annotations, files, store, clock, cancelled,
                   load, cycle, initOutcome>>

\* The goroutine wakes up once midnight has passed and calls
\* RefreshData(time.Now()).
MidnightReached ==
    /\ rpc = "sleep"
    /\ clock.day >= ref.day
    /\ ref' = StartRefresh("midnight", clock.day)
    /\ rpc' = "fetch"
    /\ attempted' = attempted \cup {clock.day}
    /\ UNCHANGED <<calculator, nodeModified, config, hardware, annotations, files, store, environment,
                   pc, load, cycle, wroteRemote, cycles, initOutcome,
                   runStartDay>>

\* A faulty variant: the error of a cycle is fatal.
GetNodeFails_Fatal ==
    /\ pc = "getNode"
    /\ pc' = "fatal"
    /\ wroteRemote' = FALSE
    /\ UNCHANGED <<calculator, nodeModified, config, hardware, annotations,
                   files, store, environment, load, cycle, rpc, ref, ghosts>>

\* AdjustPowerCap: getNode fails and the cycle ends with the error.
GetNodeFails ==
    /\ pc = "getNode"
    /\ pc' = "select"
    /\ wroteRemote' = FALSE
    /\ UNCHANGED <<calculator, nodeModified, config, hardware, annotations, files, store, environment,
                   load, cycle, rpc, ref, ghosts>>

\* AdjustPowerCap: node, err := pm.getNode(); currentTime := time.Now();
\* data := pm.dataStore.GetCurrentData().  getNode fails once pm.ctx is done.
GetNode ==
    /\ pc = "getNode"
    /\ ~cancelled
    /\ cycle' = [IdleCycle EXCEPT !.node = annotations,
                                  !.period = PeriodAt(clock.t),
                                  !.data = currentData]
    /\ nodeModified' = FALSE
    /\ pc' = "readMaxVolume"
    /\ wroteRemote' = FALSE
    /\ UNCHANGED <<calculator, config, hardware, annotations, files, store, environment,
                   load, rpc, ref, ghosts>>

\* getMaxPowerValue fails: the cycle ends with the error.
NoMaxPower ==
    /\ pc = "readMaxVolume"
    /\ ~getMaxPowerValueOk(cycle.node)
    /\ cycle' = IdleCycle
    /\ pc' = "select"
    /\ wroteRemote' = FALSE
    /\ UNCHANGED <<calculator, nodeModified, config, hardware, annotations, files, store, environment,
                   load, rpc, ref, ghosts>>

\* maxVolume := pm.dataStore.GetMaxVolume(); the source power is calculated
\* with the node's max power as reference, the floor is substituted for 0,
\* and the limit to apply is determined.
ComputePower ==
    /\ pc = "readMaxVolume"
    /\ getMaxPowerValueOk(cycle.node)
    /\ LET maxPower    == getMaxPowerValue(cycle.node)
           calc        == CalculatePowerWithMax(maxPower, maxVolume,
                                                cycle.period, cycle.data)
           sourcePower == SubstituteFloor(calc, config.RaplLimit)
       IN  cycle' = [cycle EXCEPT !.maxVolume = maxVolume,
                                  !.maxPower = maxPower, !.calc = calc,
                                  !.sourcePower = sourcePower,
                                  !.pmax = ClampPower(sourcePower, maxPower,
                                                      config.RaplLimit)]
    /\ pc' = "annotate"
    /\ wroteRemote' = FALSE
    /\ UNCHANGED <<calculator, nodeModified, config, hardware, annotations, files, store, environment,
                   load, rpc, ref, ghosts>>

(***************************************************************************)
(* Manager.applyPowerLimits(node, pmax).                                   *)
(***************************************************************************)
\* Index of the first point of data whose period is the given one, 0 if none.
RECURSIVE FindPoint(_, _, _)
FindPoint(data, period, i) ==
    IF i > Len(data) THEN 0
    ELSE IF data[i].Period = period THEN i
    ELSE FindPoint(data, period, i + 1)

\* The market context annotations of a point (Sprintf "%.1f" and "%.2f").
WithMarketContext(node, pt) ==
    Put(Put(Put(node, "rapl/market-period", <<"period", pt.Period>>),
            "rapl/market-volume", <<"float", RoundTo10(pt.Volume)>>),
        "rapl/market-price", <<"float", RoundTo10(pt.Price)>>)

\* A faulty variant: the annotations are built in a new map.
AnnotatedNode_NewMap(node, pmax, now, data) ==
    Put(Put(Put(NoAnnotations, PmaxAnnotation, FormatInt(pmax)),
            "rapl/last-update", <<"time", now.day, now.t>>),
        "rapl/provider", DataProvider)

\* The keys of the market context.
MarketKeys == {"rapl/market-period", "rapl/market-volume", "rapl/market-price"}

\* A faulty variant: without a point for the current period the market
\* context is removed from the node.
AnnotatedNode_ClearsMarketContext(node, pmax, now, data) ==
    LET core == Put(Put(Put(node, PmaxAnnotation, FormatInt(pmax)),
                        "rapl/last-update", <<"time", now.day, now.t>>),
                    "rapl/provider", DataProvider)
        k    == FindPoint(data, PeriodAt(now.t), 1)
    IN  IF k = 0 THEN [key \in DOMAIN core \ MarketKeys |-> core[key]]
        ELSE WithMarketContext(core, data[k])

\* A faulty variant: the limit is also stored as the node's max power.
AnnotatedNode_SetsMaxPower(node, pmax, now, data) ==
    LET core == Put(Put(Put(Put(node, PmaxAnnotation, FormatInt(pmax)),
                            MaxPowerAnnotation, FormatInt(pmax)),
                        "rapl/last-update", <<"time", now.day, now.t>>),
                    "rapl/provider", DataProvider)
        k    == FindPoint(data, PeriodAt(now.t), 1)
    IN  IF k = 0 THEN core ELSE WithMarketContext(core, data[k])

\* The node object as applyPowerLimits annotates it, data and now being
\* read again from the data store and the clock.
AnnotatedNode(node, pmax, now, data) ==
    LET core == Put(Put(Put(node, PmaxAnnotation, FormatInt(pmax)),
                        "rapl/last-update", <<"time", now.day, now.t>>),
                    "rapl/provider", DataProvider)
        k    == FindPoint(data, PeriodAt(now.t), 1)
    IN  IF k = 0 THEN core ELSE WithMarketContext(core, data[k])

\* A faulty variant: the node is updated before the hardware is written.
SetAnnotations_UpdatesFirst ==
    /\ pc = "annotate"
    /\ cycle' = [cycle EXCEPT !.node = AnnotatedNode(cycle.node, cycle.pmax,
                                                     clock, currentData)]
    /\ annotations' = cycle'.node
    /\ pc' = "applyHW"
    /\ wroteRemote' = TRUE
    /\ UNCHANGED <<calculator, nodeModified, config, hardware, files, store,
                   environment, load, rpc, ref, ghosts>>

SetAnnotations ==
    /\ pc = "annotate"
    /\ cycle' = [cycle EXCEPT !.node = AnnotatedNode(cycle.node, cycle.pmax,
                                                     clock, currentData)]
    /\ pc' = "applyHW"
    /\ wroteRemote' = FALSE
    /\ UNCHANGED <<calculator, nodeModified, config, hardware, annotations, files, store, environment,
                   load, rpc, ref, ghosts>>

\* A faulty variant: a failed write makes applyPowerLimits return before
\* updateNode.
ApplyPowerLimits_AbortsOnError ==
    /\ pc = "applyHW"
    /\ \E failed \in SUBSET (1..Len(domain.Constraints)) :
          /\ limits' = [i \in 1..Len(domain.Constraints) |->
                           IF i \in failed THEN limits[i] ELSE cycle.pmax]
          /\ IF failed = {}
                THEN pc' = "updateNode" /\ cycle' = cycle
                ELSE pc' = "select" /\ cycle' = IdleCycle
    /\ wroteRemote' = FALSE
    /\ UNCHANGED <<calculator, nodeModified, config, domain, annotations,
                   files, store, environment, load, rpc, ref, ghosts>>

\* rapl.Manager.ApplyPowerLimits(pmax): the value is written to every
\* power_limit_uw file; the writes of the set failed fail and are logged.
ApplyPowerLimits ==
    /\ pc = "applyHW"
    /\ \E failed \in SUBSET (1..Len(domain.Constraints)) :
          limits' = [i \in 1..Len(domain.Constraints) |->
                        IF i \in failed THEN limits[i] ELSE cycle.pmax]
    /\ pc' = "updateNode"
    /\ wroteRemote' = FALSE
    /\ UNCHANGED <<calculator, nodeModified, config, domain, annotations, files, store, environment,
                   load, cycle, rpc, ref, ghosts>>

\* A faulty variant: the update is accepted whatever the resourceVersion.
UpdateNodeAccepted_Overwrites ==
    /\ pc = "updateNode"
    /\ ~cancelled
    /\ annotations' = cycle.node
    /\ cycle' = IdleCycle
    /\ pc' = "select"
    /\ wroteRemote' = TRUE
    /\ UNCHANGED <<calculator, nodeModified, config, hardware, files, store,
                   environment, load, rpc, ref, ghosts>>

\* return pm.updateNode(node): the API server accepts the update, which
\* replaces the node's annotations by those of the object sent.  It does so
\* only if pm.ctx is not done and the object still carries the node's
\* resourceVersion.
UpdateNodeAccepted ==
    /\ pc = "updateNode"
    /\ ~cancelled
    /\ ~nodeModified
    /\ annotations' = cycle.node
    /\ cycle' = IdleCycle
    /\ pc' = "select"
    /\ wroteRemote' = TRUE
    /\ UNCHANGED <<calculator, nodeModified, config, hardware, files, store,
                   environment, load, rpc, ref, ghosts>>

\* A faulty variant: after a failed update the node is read again and the
\* adjustment is made once more.
UpdateNodeRejected_Retries ==
    /\ pc = "updateNode"
    /\ UNCHANGED annotations
    /\ cycle' = IdleCycle
    /\ pc' = "getNode"
    /\ wroteRemote' = TRUE
    /\ UNCHANGED <<calculator, nodeModified, config, hardware, files, store,
                   environment, load, rpc, ref, ghosts>>

\* return pm.updateNode(node): the update fails (context done, conflict,
\* API server unreachable) and AdjustPowerCap returns the error.
UpdateNodeRejected ==
    /\ pc = "updateNode"
    /\ UNCHANGED annotations
    /\ cycle' = IdleCycle
    /\ pc' = "select"
    /\ wroteRemote' = TRUE
    /\ UNCHANGED <<calculator, nodeModified, config, hardware, files, store,
                   environment, load, rpc, ref, ghosts>>

UpdateNode == UpdateNodeAccepted \/ UpdateNodeRejected

(***************************************************************************)
(* The event loop of Run: select on ticker.C and pm.ctx.Done().            *)
(***************************************************************************)
\* case <-ticker.C: the next adjustment cycle starts.
SelectTick ==
    /\ pc = "select"
    /\ tickPending
    /\ cycles < MaxCycles
    /\ tickPending' = FALSE
    /\ cycles' = cycles + 1
    /\ pc' = "getNode"
    /\ wroteRemote' = FALSE
    /\ UNCHANGED <<calculator, nodeModified, config, hardware, annotations, files, store, clock, cancelled,
                   load, cycle, rpc, ref, initOutcome, runStartDay, attempted>>

\* A faulty variant: on pm.ctx.Done() the select is left but not the loop.
SelectDone_StaysInLoop ==
    /\ pc = "select"
    /\ cancelled
    /\ UNCHANGED vars

\* case <-pm.ctx.Done(): Run returns, main returns, and the process ends
\* together with the goroutine of scheduleDailyDataRefresh.
SelectDone ==
    /\ pc = "select"
    /\ cancelled
    /\ pc' = "exited"
    /\ rpc' = "idle"
    /\ ref' = IdleRef
    /\ wroteRemote' = FALSE
    /\ UNCHANGED <<calculator, nodeModified, config, hardware, annotations, files, store, environment,
                   load, cycle, ghosts>>

Running == pc \in {"getNode", "readMaxVolume", "annotate", "applyHW",
                   "updateNode", "select"}

(***************************************************************************)
(* The environment.                                                        *)
(***************************************************************************)
\* The ticker fires; ticker.C holds at most one tick, and the loop looks at
\* it only in its select.
TickerFires ==
    /\ pc = "select"
    /\ ~tickPending
    /\ tickPending' = TRUE
    /\ UNCHANGED <<calculator, nodeModified, config, hardware, annotations, files, store, clock, cancelled,
                   pc, load, cycle, rpc, ref, wroteRemote, ghosts>>

\* The context handed to NewManager is cancelled.  pm.ctx is looked at by
\* getNode, by updateNode and by the select of the loop.
Cancel ==
    /\ pc \in {"getNode", "updateNode", "select"}
    /\ ~cancelled
    /\ cancelled' = TRUE
    /\ UNCHANGED <<calculator, nodeModified, config, hardware, annotations, files, store, clock, tickPending,
                   pc, load, cycle, rpc, ref, wroteRemote, ghosts>>

\* Time passes.  While the controller runs the clock is read twice by every
\* adjustment cycle and by the sleeping goroutine; the time that passes
\* between two readings is let pass right before the later one.  Startup
\* takes no time.
ClockIsRead == pc \in {"getNode", "annotate"} \/ (Running /\ rpc = "sleep")

ClockAdvances ==
    /\ ClockIsRead
    /\ \/ /\ clock.t < NTimes
          /\ clock' = [clock EXCEPT !.t = clock.t + 1]
       \/ /\ clock.t = NTimes
          /\ clock.day < MaxDay
          /\ clock' = [day |-> clock.day + 1, t |-> 1]
    /\ UNCHANGED <<calculator, nodeModified, config, hardware, annotations, files, store, cancelled,
                   tickPending, pc, load, cycle, rpc, ref,
                   wroteRemote, ghosts>>

Next ==
    \/ LoadDataFound \/ LoadDataMissing \/ LoadDataRefreshed
    \/ LoadCSVOk \/ LoadCSVError
    \/ FetchDataError \/ FetchDataReturns
    \/ SaveDataError \/ SaveDataWrites
    \/ SetCurrentData \/ ZeroMaxVolume \/ ScanPoint
    \/ InitializeNodeGetFails \/ InitializeNodeSkips
    \/ InitializeNodeNoMax \/ InitializeNodeWrites
    \/ Run \/ MidnightReached
    \/ GetNodeFails \/ GetNode
    \/ NoMaxPower \/ ComputePower
    \/ SetAnnotations \/ ApplyPowerLimits \/ UpdateNode
    \/ SelectTick \/ SelectDone
    \/ TickerFires \/ Cancel \/ ClockAdvances

Spec == Init /\ [][Next]_vars

(***************************************************************************)
(* The market-based calculator called on its own: CalculatePower(maxSource, *)
(* currentTime, data) for every reference max, time of day and dataset of  *)
(* the sets below.  The controller stays as NewManager left it.            *)
(***************************************************************************)
RefMaxes == {0, 35000000, 40000000, 99999999}
CalcTimes == {<<0, 5>>, <<12, 7>>, <<12, 14>>, <<18, 0>>, <<23, 50>>}
CalcDatasets == {<<>>, DataA, DataB, DataZ, DataDup}

controller == <<config, domain, limits, annotations, files, currentData,
                maxVolume, clock, pc, load, cycle, tickPending, cancelled,
                rpc, ref, cycles, wroteRemote, initOutcome, runStartDay,
                attempted, nodeModified>>

CalcInit ==
    /\ NewManager(Deployment(10000000, DomainNormal, NoAnnotations,
                             NoFile, NoFile))
    /\ args \in [maxSource : RefMaxes, time : CalcTimes, data : CalcDatasets]
    /\ result = NotReturned

Calculate ==
    /\ result = NotReturned
    /\ result' = << CalculatePower(args.maxSource,
                                   GetCurrentPeriod(args.time[1], args.time[2]),
                                   args.data) >>
    /\ UNCHANGED <<args, controller>>

CalcNext == Calculate

CalcSpec == CalcInit /\ [][CalcNext]_vars

(***************************************************************************)
(* The controller over a short run: started at 12:07 of day 1 and observed *)
(* for a few cycles during which the wall clock stays within the same      *)
(* market period and the midnight goroutine stays asleep.  More            *)
(* deployments are considered than over the long run.                      *)
(***************************************************************************)
\* Discovery found no domain with a constraint file: DiscoverDomains drops
\* such domains and returns nil with an empty list.
DomainNone == [Constraints |-> <<>>, ConstraintsMax |-> <<>>]

\* A domain with a long term and a short term constraint.
DomainTwoConstraints ==
    [Constraints    |-> <<FormatInt(20000000), FormatInt(15000000)>>,
     ConstraintsMax |-> <<FormatInt(35000000)>>]

\* An initialized node whose max power annotation has been removed.
InitializedWithoutMaxPower ==
    [k \in {PmaxAnnotation, "rapl/provider", InitializationAnnotation} |->
        CASE k = PmaxAnnotation -> FormatInt(20000000)
          [] k = "rapl/provider" -> DataProvider
          [] OTHER -> InitializedValue]

\* Further deployments:
\*  - a first start on a machine where discovery found no usable domain;
\*  - a restart on such a machine, the node initialized by an earlier run;
\*  - a restart with a floor above the node's max power and a file of today
\*    that holds no record;
\*  - a restart on a node that has lost its max power annotation;
\*  - a restart on a machine whose domain has two constraints.
OtherDeployments ==
    { Deployment(10000000, DomainNone, NoAnnotations,
                 SavedFile(DataA), SavedFile(DataB)),
      Deployment(10000000, DomainNone, InitializedBefore(FormatInt(35000000)),
                 NoFile, SavedFile(DataB)),
      Deployment(36000000, DomainNormal, InitializedBefore(FormatInt(35000000)),
                 NoFile, TruncatedFile),
      Deployment(10000000, DomainNormal, InitializedWithoutMaxPower,
                 NoFile, SavedFile(DataB)),
      Deployment(10000000, DomainTwoConstraints,
                 InitializedBefore(FormatInt(35000000)),
                 NoFile, SavedFile(DataB)) }

ShortRunInit ==
    /\ \E d \in Deployments \cup OtherDeployments : NewManager(d)
    /\ args = NoCall
    /\ result = NotReturned

ShortRunNext ==
    \/ LoadDataFound \/ LoadDataMissing \/ LoadDataRefreshed
    \/ LoadCSVOk \/ LoadCSVError
    \/ FetchDataError \/ FetchDataReturns
    \/ SaveDataError \/ SaveDataWrites
    \/ SetCurrentData \/ ZeroMaxVolume \/ ScanPoint
    \/ InitializeNodeGetFails \/ InitializeNodeSkips
    \/ InitializeNodeNoMax \/ InitializeNodeWrites
    \/ Run
    \/ GetNodeFails \/ GetNode
    \/ NoMaxPower \/ ComputePower
    \/ SetAnnotations \/ ApplyPowerLimits \/ UpdateNode
    \/ SelectTick \/ SelectDone
    \/ TickerFires \/ Cancel

ShortRunSpec == ShortRunInit /\ [][ShortRunNext]_vars

(***************************************************************************)
(* Save then Load: LoadData(today) finds no file, RefreshData obtains a    *)
(* dataset from the provider, SaveData writes it to the file of today and  *)
(* LoadData loads that file back.  The dataset is any sequence of 1 to     *)
(* MaxRows points with the labels, volumes and prices below (volumes in    *)
(* hundredths of a MWh, prices in thousandths: the values are not all      *)
(* multiples of what the file keeps, and two points may carry one label).  *)
(***************************************************************************)
RoundTripPoints ==
    { Point(p, v, pr) : p \in {Label(12, 0, 12, 15), Label(23, 45, 24, 0)},
                        v \in {0, 8004, 8996},
                        pr \in {-45678, 12344} }

RoundTripDatasets ==
    UNION { [1..n -> RoundTripPoints] : n \in 1..MaxRows }

RoundTripInit ==
    /\ NewManager(Deployment(10000000, DomainNormal, NoAnnotations,
                             NoFile, NoFile))
    /\ args \in { [NoCall EXCEPT !.data = d] : d \in RoundTripDatasets }
    /\ result = NotReturned

\* provider.FetchData returns the dataset of the run.
FetchDataReturnsDataset ==
    /\ rpc = "fetch"
    /\ rpc' = "save"
    /\ ref' = [ref EXCEPT !.data = args.data]
    /\ UNCHANGED <<calculator, nodeModified, config, hardware, annotations,
                   files, store, environment, pc, load, cycle, wroteRemote,
                   ghosts>>

RoundTripNext ==
    \/ LoadDataMissing \/ FetchDataReturnsDataset
    \/ SaveDataError \/ SaveDataWrites
    \/ SetCurrentData \/ ZeroMaxVolume \/ ScanPoint
    \/ LoadDataRefreshed
    \/ LoadCSVOk \/ LoadCSVError

RoundTripSpec == RoundTripInit /\ [][RoundTripNext]_vars

(***************************************************************************)
(* The short run with another writer of the node object (the TTL           *)
(* controller of the cluster, an operator) at work.                        *)
(***************************************************************************)
ForeignAnnotation == "node.alpha.kubernetes.io/ttl"

\* Someone else updates the node: the annotation is set to a value it does
\* not have, and the node's resourceVersion changes.  An update made while
\* the loop waits in its select is let happen right before the next getNode.
ExternalWrite ==
    /\ Running
    /\ pc # "select"
    /\ \E v \in {FormatInt(0), FormatInt(1)} :
          /\ annotations' = Put(annotations, ForeignAnnotation, v)
          /\ annotations' # annotations
    /\ nodeModified' = TRUE
    /\ UNCHANGED <<calculator, config, hardware, files, store, environment,
                   pc, load, cycle, rpc, ref, wroteRemote, ghosts>>

WriterNext == ShortRunNext \/ ExternalWrite

WriterSpec == ShortRunInit /\ [][WriterNext]_vars

(***************************************************************************)
(* rapl.Manager.DiscoverDomains on its own, for every content of the RAPL  *)
(* base directory made of at most MaxEntries of the entries below.  A      *)
(* domain is recorded as the controller keeps it: the values of its power  *)
(* limit constraints and of its max power constraints, in directory order. *)
(***************************************************************************)
\* A file of a domain directory: constraint_<num>_<kind>; content is what
\* os.ReadFile returns, trimmed, when the file is readable.
ConstraintFile(num, kind, readable, content) ==
    [num |-> num, kind |-> kind, readable |-> readable, content |-> content]

\* An entry of the base directory: isDomain when it is a directory named
\* intel-rapl:*; readable when os.ReadDir on it succeeds.
DirEntry(isDomain, readable, dirFiles) ==
    [isDomain |-> isDomain, readable |-> readable, files |-> dirFiles]

\* The listings of a domain directory considered (os.ReadDir sorts by name:
\* max_power_uw, name, power_limit_uw).
DomainListings ==
    { <<>>,
      << ConstraintFile(0, "name", TRUE, Text(3)) >>,
      << ConstraintFile(0, "max_power_uw", FALSE, Garbage),
         ConstraintFile(0, "name", TRUE, Text(3)),
         ConstraintFile(0, "power_limit_uw", TRUE, FormatInt(20000000)) >>,
      << ConstraintFile(0, "max_power_uw", TRUE, FormatInt(35000000)),
         ConstraintFile(0, "power_limit_uw", FALSE, Garbage) >>,
      << ConstraintFile(0, "power_limit_uw", FALSE, Garbage),
         ConstraintFile(1, "power_limit_uw", TRUE, FormatInt(15000000)) >>,
      << ConstraintFile(0, "max_power_uw", FALSE, Garbage),
         ConstraintFile(0, "power_limit_uw", FALSE, Garbage) >> }

DirEntries ==
    { DirEntry(FALSE, TRUE, <<>>), DirEntry(TRUE, FALSE, <<>>) }
      \cup { DirEntry(TRUE, TRUE, l) : l \in DomainListings }

BaseDirs ==
    [readable : BOOLEAN,
     entries  : UNION { [1..n -> DirEntries] : n \in 0..MaxEntries }]

\* A faulty variant: what was read is recorded even when the read failed.
RecordedValue_Unchecked(f) == f.content

\* value, err := readPowerLimit(path); if err != nil { value = "0" }
RecordedValue(f) == IF f.readable THEN f.content ELSE FormatInt(0)

\* The loop over the files of a domain directory.
RECURSIVE ScanConstraintFiles(_, _, _)
ScanConstraintFiles(dirFiles, i, dom) ==
    IF i > Len(dirFiles) THEN dom
    ELSE LET f == dirFiles[i]
             withMax == IF f.kind = "max_power_uw"
                          THEN [dom EXCEPT !.ConstraintsMax =
                                              Append(@, RecordedValue(f))]
                          ELSE dom
             withLimit == IF f.kind = "power_limit_uw"
                            THEN [withMax EXCEPT !.Constraints =
                                                Append(@, RecordedValue(f))]
                            ELSE withMax
         IN  ScanConstraintFiles(dirFiles, i + 1, withLimit)

\* The loop over the entries of the base directory: the error of a domain
\* directory that cannot be read ends discovery; a domain is added only if
\* it has a constraint of either kind.
RECURSIVE ScanEntries(_, _, _)
ScanEntries(entries, i, domains) ==
    IF i > Len(entries) THEN [err |-> FALSE, domains |-> domains]
    ELSE IF ~entries[i].isDomain THEN ScanEntries(entries, i + 1, domains)
    ELSE IF ~entries[i].readable THEN [err |-> TRUE, domains |-> <<>>]
    ELSE LET dom == ScanConstraintFiles(entries[i].files, 1, DomainNone)
         IN  ScanEntries(entries, i + 1,
                         IF Len(dom.Constraints) > 0
                              \/ Len(dom.ConstraintsMax) > 0
                           THEN Append(domains, dom) ELSE domains)

\* DiscoverDomains: err tells whether an error is returned, domains is
\* m.domains afterwards.
DiscoverDomains(base) ==
    IF ~base.readable THEN [err |-> TRUE, domains |-> <<>>]
    ELSE ScanEntries(base.entries, 1, <<>>)

DiscoverInit ==
    /\ NewManager(Deployment(10000000, DomainNormal, NoAnnotations,
                             NoFile, NoFile))
    /\ args \in BaseDirs
    /\ result = NotReturned

Discover ==
    /\ result = NotReturned
    /\ result' = << DiscoverDomains(args) >>
    /\ UNCHANGED <<args, controller>>

DiscoverNext == Discover

DiscoverSpec == DiscoverInit /\ [][DiscoverNext]_vars

(***************************************************************************)
(* The time-curve calculator, PowerManager.calculateSourcePower, called on *)
(* its own at two times of one day:                                        *)
(*   power := MaxSource * math.Pow(math.Sin((math.Pi/16)*(t-MaxHour)),     *)
(*                                 Alpha)                                  *)
(* with t = hour + minute/60 (MaxHour is the literal 4 in the first        *)
(* variant).  The times considered are those at which the angle is a       *)
(* multiple of pi/6 or of pi/4, where the square of the sine is a multiple *)
(* of 1/4; Alpha is even, so that the power of the sine is a rational      *)
(* computed exactly, and MaxSource is a multiple of 16, so that no product *)
(* falls on a rounding tie.                                                *)
(***************************************************************************)
CurveTimes ==
    { <<0, 0>>, <<1, 20>>, <<4, 0>>, <<6, 40>>, <<8, 0>>, <<9, 20>>,
      <<12, 0>>, <<14, 40>>, <<16, 0>>, <<17, 20>>, <<20, 0>>, <<22, 40>> }
CurveAlphas == {2, 4}
CurveMaxHours == {4, 12}
CurveMaxSources == {0, 1600, 40000000}

\* (math.Pi/16)*(t-MaxHour) in units of pi/12: 80 minutes each.
AngleIndex(time, maxHour) == (60 * time[1] + time[2] - 60 * maxHour) \div 80

\* math.Sin at k*pi/12: its sign and four times its square.
SineSign(k) == IF k % 12 = 0 THEN 0 ELSE IF k % 24 < 12 THEN 1 ELSE -1
SineSquareTimes4(k) ==
    CASE k % 12 = 0 -> 0
      [] k % 12 \in {2, 10} -> 1
      [] k % 12 \in {3, 9} -> 2
      [] k % 12 \in {4, 8} -> 3
      [] k % 12 = 6 -> 4

RECURSIVE IntPow(_, _)
IntPow(x, n) == IF n = 0 THEN 1 ELSE x * IntPow(x, n - 1)

\* math.Pow(math.Sin(angle), alpha) for an even alpha, as a fraction:
\* sign^alpha * (sin^2)^(alpha/2).
PowSine(k, alpha) ==
    [num |-> IntPow(SineSign(k), alpha)
               * IntPow(SineSquareTimes4(k), alpha \div 2),
     den |-> IntPow(4, alpha \div 2)]

\* calculateSourcePower: 0 when the product is negative, the product
\* rounded to the nearest integer otherwise.
calculateSourcePower(maxSource, alpha, maxHour, time) ==
    LET p == PowSine(AngleIndex(time, maxHour), alpha)
    IN  IF maxSource * p.num < 0 THEN 0
        ELSE (2 * maxSource * p.num + p.den) \div (2 * p.den)

CurveInit ==
    /\ NewManager(Deployment(10000000, DomainNormal, NoAnnotations,
                             NoFile, NoFile))
    /\ args \in [maxSource : CurveMaxSources, alpha : CurveAlphas,
                 maxHour : CurveMaxHours, time : CurveTimes,
                 later : CurveTimes]
    /\ result = NotReturned

\* The calculator is called at args.time and again at args.later.
CalculateOnCurve ==
    /\ result = NotReturned
    /\ result' = << calculateSourcePower(args.maxSource, args.alpha,
                                         args.maxHour, args.time),
                    calculateSourcePower(args.maxSource, args.alpha,
                                         args.maxHour, args.later) >>
    /\ UNCHANGED <<args, controller>>

CurveNext == CalculateOnCurve

CurveSpec == CurveInit /\ [][CurveNext]_vars

(***************************************************************************)
(* The short run with the ticker followed at every moment: a tick may also *)
(* be delivered to ticker.C while an adjustment cycle is in progress.      *)
(***************************************************************************)
\* A faulty variant: the tick starts its cycle as soon as it is delivered.
TickerFiresDuringCycle_StartsCycle ==
    /\ Running
    /\ pc # "select"
    /\ cycles < MaxCycles
    /\ cycles' = cycles + 1
    /\ pc' = "getNode"
    /\ UNCHANGED <<calculator, nodeModified, config, hardware, annotations,
                   files, store, environment, load, cycle, rpc, ref,
                   wroteRemote, initOutcome, runStartDay, attempted>>

\* The ticker fires during a cycle: the tick waits in ticker.C, whose
\* buffer holds one tick; further ticks are dropped by the runtime.
TickerFiresDuringCycle ==
    /\ Running
    /\ pc # "select"
    /\ ~tickPending
    /\ tickPending' = TRUE
    /\ UNCHANGED <<calculator, nodeModified, config, hardware, annotations,
                   files, store, clock, cancelled, pc, load, cycle, rpc, ref,
                   wroteRemote, ghosts>>

TickNext == ShortRunNext \/ TickerFiresDuringCycle

TickSpec == ShortRunInit /\ [][TickNext]_vars

(***************************************************************************)
(* The period of every minute of the day, looked up in the dataset the     *)
(* synthetic and the fixed providers generate.                             *)
(***************************************************************************)
\* The period label both providers give the quarter of an hour.
ProviderPeriod(hour, quarter) ==
    LET minute     == quarter * 15
        nextMinute == IF minute + 15 >= 60 THEN 0 ELSE minute + 15
        nextHour   == IF minute + 15 >= 60 THEN (hour + 1) % 24 ELSE hour
    IN  IF hour = 23 /\ quarter = 3
          THEN Label(23, 45, 24, 0)
          ELSE Label(hour, minute, nextHour, nextMinute)

\* The periods of the 96 points MockProvider.FetchData returns.
MockProviderPeriods ==
    {ProviderPeriod(hour, quarter) : hour \in 0..23, quarter \in 0..3}

\* The periods of the 96 points NewStaticProviderWithDefaults stores.
StaticProviderPeriods ==
    {ProviderPeriod(hour, quarter) : hour \in 0..23, quarter \in 0..3}

ProviderNames == {"mock", "static"}

PeriodsOf(provider) ==
    IF provider = "mock" THEN MockProviderPeriods ELSE StaticProviderPeriods

\* Every minute of the day.
AllTimes == (0..23) \X (0..59)

PeriodInit ==
    /\ NewManager(Deployment(10000000, DomainNormal, NoAnnotations,
                             NoFile, NoFile))
    /\ args \in [time : AllTimes, provider : ProviderNames]
    /\ result = NotReturned

\* The period of args.time is computed and looked up among the provider's
\* points.
LookupCurrentPeriod ==
    /\ result = NotReturned
    /\ LET period == GetCurrentPeriod(args.time[1], args.time[2])
       IN  result' = [period |-> period,
                      found  |-> period \in PeriodsOf(args.provider)]
    /\ UNCHANGED <<args, controller>>

PeriodNext == LookupCurrentPeriod

PeriodSpec == PeriodInit /\ [][PeriodNext]_vars

(***************************************************************************)
(* The maximum power value over the domains found at discovery, as the     *)
(* rapl Manager and as the PowerManager compute it.                        *)
(***************************************************************************)
MaxDomains == 2

\* Values a constraint may have been recorded with.
ConstraintValues ==
    {FormatInt(0), FormatInt(-1), FormatInt(20000000), FormatInt(35000000),
     Garbage}

\* The constraints of one kind in a domain: none or one.
ConstraintLists == {<<>>} \cup {<<v>> : v \in ConstraintValues}

DiscoveredDomains ==
    [Constraints : ConstraintLists, ConstraintsMax : ConstraintLists]

DomainLists ==
    UNION {[1..n -> DiscoveredDomains] : n \in 0..MaxDomains}

\* Manager.FindMaxPowerValue over m.domains, from domain i on.
RECURSIVE FindMaxPowerValueFrom(_, _, _)
FindMaxPowerValueFrom(domains, i, maxPower) ==
    IF i > Len(domains) THEN maxPower
    ELSE FindMaxPowerValueFrom(domains, i + 1,
           MaxOfValues(domains[i].ConstraintsMax, 1,
                       MaxOfValues(domains[i].Constraints, 1, maxPower)))

\* PowerManager.findMaxPowerValue over pm.raplDomains, from domain i on.
RECURSIVE findMaxPowerValueFrom(_, _, _)
findMaxPowerValueFrom(domains, i, maxPower) ==
    IF i > Len(domains) THEN maxPower
    ELSE findMaxPowerValueFrom(domains, i + 1,
           MaxOfValues(domains[i].ConstraintsMax, 1, maxPower))

\* if maxPower == 0 { return 0, error } ; return maxPower, nil
MaxPowerResult(maxPower) == [err |-> maxPower = 0, value |-> maxPower]

FindMaxVariants == {"Manager", "PowerManager"}

FindMaxInit ==
    /\ NewManager(Deployment(10000000, DomainNormal, NoAnnotations,
                             NoFile, NoFile))
    /\ args \in [domains : DomainLists, variant : FindMaxVariants]
    /\ result = NotReturned

ManagerFindMaxPowerValue ==
    /\ result = NotReturned
    /\ args.variant = "Manager"
    /\ result' = MaxPowerResult(FindMaxPowerValueFrom(args.domains, 1, 0))
    /\ UNCHANGED <<args, controller>>

PowerManagerFindMaxPowerValue ==
    /\ result = NotReturned
    /\ args.variant = "PowerManager"
    /\ result' = MaxPowerResult(findMaxPowerValueFrom(args.domains, 1, 0))
    /\ UNCHANGED <<args, controller>>

FindMaxNext == ManagerFindMaxPowerValue \/ PowerManagerFindMaxPowerValue

FindMaxSpec == FindMaxInit /\ [][FindMaxNext]_vars

(***************************************************************************)
(* Manager.ApplyPowerLimits over several domains.  A constraint file is    *)
(* named by <<domain, kind, number>>, kind "limit" for power_limit_uw and  *)
(* "max" for max_power_uw.                                                 *)
(***************************************************************************)
\* The numbers of power-limit and max-power constraints a domain may have.
DomainShapes == [limit : 0..2, max : 0..1]

ShapeLists == UNION {[1..n -> DomainShapes] : n \in 0..MaxDomains}

\* The values ApplyPowerLimits is called with.
AppliedValues == {10000000, 30000000}

ConstraintPaths(shapes, kind) ==
    {<<d, kind, j>> : d \in 1..Len(shapes), j \in 1..2}
        \cap {p \in (1..Len(shapes)) \X {kind} \X (1..2) :
                  p[3] <= shapes[p[1]][kind]}

\* The content of the files before the call.
FilesBefore(shapes) ==
    [p \in ConstraintPaths(shapes, "limit") \cup ConstraintPaths(shapes, "max")
        |-> IF p[2] = "limit" THEN FormatInt(20000000)
                              ELSE FormatInt(35000000)]

\* A faulty variant: the first failed write ends the loop over the domain.
RECURSIVE WriteConstraints_StopsOnError(_, _, _, _)
WriteConstraints_StopsOnError(d, n, j, failing) ==
    IF j > n THEN [attempts |-> <<>>, errors |-> <<>>]
    ELSE LET path == <<d, "limit", j>>
             rest == WriteConstraints_StopsOnError(d, n, j + 1, failing)
         IN  IF path \in failing
               THEN [attempts |-> <<path>>, errors |-> <<path>>]
               ELSE [attempts |-> <<path>> \o rest.attempts,
                     errors   |-> rest.errors]

\* for _, constraint := range domain.Constraints: the files written to, in
\* order, and the errors appended, from constraint j of domain d on.
RECURSIVE WriteConstraints(_, _, _, _)
WriteConstraints(d, n, j, failing) ==
    IF j > n THEN [attempts |-> <<>>, errors |-> <<>>]
    ELSE LET path == <<d, "limit", j>>
             rest == WriteConstraints(d, n, j + 1, failing)
         IN  [attempts |-> <<path>> \o rest.attempts,
              errors   |-> (IF path \in failing THEN <<path>> ELSE <<>>)
                              \o rest.errors]

\* for _, domain := range m.domains, from domain d on.
RECURSIVE WriteDomains(_, _, _)
WriteDomains(shapes, d, failing) ==
    IF d > Len(shapes) THEN [attempts |-> <<>>, errors |-> <<>>]
    ELSE LET here == WriteConstraints(d, shapes[d].limit, 1, failing)
             rest == WriteDomains(shapes, d + 1, failing)
         IN  [attempts |-> here.attempts \o rest.attempts,
              errors   |-> here.errors \o rest.errors]

\* A faulty variant: the files are written in milliwatts.
FilesAfter_InMilliwatts(before, attempts, failing, pmax) ==
    [p \in DOMAIN before |->
        IF (\E i \in 1..Len(attempts) : attempts[i] = p) /\ p \notin failing
          THEN FormatInt(pmax \div 1000) ELSE before[p]]

\* The files after the writes: a successful os.WriteFile leaves pmaxStr in
\* the file, a failed one leaves the file as it was.
FilesAfter(before, attempts, failing, pmax) ==
    [p \in DOMAIN before |->
        IF (\E i \in 1..Len(attempts) : attempts[i] = p) /\ p \notin failing
          THEN FormatInt(pmax) ELSE before[p]]

ApplyInit ==
    /\ NewManager(Deployment(10000000, DomainNormal, NoAnnotations,
                             NoFile, NoFile))
    /\ args \in [domains : ShapeLists, pmax : AppliedValues]
    /\ result = NotReturned

\* ApplyPowerLimits(pmax) is called; the writes to the files of the set
\* failing fail.
ApplyToAllDomains ==
    /\ result = NotReturned
    /\ \E failing \in SUBSET ConstraintPaths(args.domains, "limit") :
          LET done == WriteDomains(args.domains, 1, failing)
          IN  result' = [attempts |-> done.attempts,
                         errors   |-> done.errors,
                         failing  |-> failing,
                         files    |-> FilesAfter(FilesBefore(args.domains),
                                                 done.attempts, failing,
                                                 args.pmax)]
    /\ UNCHANGED <<args, controller>>

ApplyNext == ApplyToAllDomains

ApplySpec == ApplyInit /\ [][ApplyNext]_vars

(***************************************************************************)
(* The data store on its own: the load at startup and the refreshes of the *)
(* following midnights, no adjustment cycle being followed.                *)
(***************************************************************************)
StoreNext ==
    \/ LoadDataFound \/ LoadDataMissing \/ LoadDataRefreshed
    \/ LoadCSVOk \/ LoadCSVError
    \/ FetchDataError \/ FetchDataReturns
    \/ SaveDataError \/ SaveDataWrites
    \/ SetCurrentData \/ ZeroMaxVolume \/ ScanPoint
    \/ InitializeNodeSkips \/ InitializeNodeWrites
    \/ Run \/ MidnightReached \/ ClockAdvances

StoreSpec == Init /\ [][StoreNext]_vars

(***************************************************************************)
(* One adjustment of the controller with the time-curve strategy,          *)
(* PowerManager.adjustPowerCap, on a node labelled at initialization with  *)
(* the max power 35000000 and a domain with one power-limit constraint.    *)
(* args holds the configuration and the time of the call, result what the  *)
(* call returned and what it left in the labels and in the constraint.     *)
(***************************************************************************)
\* The labels and the power limit before the call.
LabelsBefore ==
    Put(Put(NoAnnotations, MaxPowerAnnotation, FormatInt(35000000)),
        PmaxAnnotation, FormatInt(35000000))
PowerLimitBefore == 20000000

AdjustInit ==
    /\ NewManager(Deployment(10000000, DomainNormal, NoAnnotations,
                             NoFile, NoFile))
    /\ args \in [maxSource : CurveMaxSources, alpha : CurveAlphas,
                 time : CurveTimes, RaplLimit : {10000000}]
    /\ result = NotReturned

\* What adjustPowerCap returns and leaves behind.
Adjusted(err, sourcePower, labels, limit) ==
    [err |-> err, sourcePower |-> sourcePower, labels |-> labels,
     limit |-> limit]

\* adjustPowerCap: getNode, calculateSourcePower, getMaxPowerValue, the
\* choice of the limit, then applyPowerLimits, whose file write and whose
\* updateNode each succeed or fail.
adjustPowerCap ==
    /\ result = NotReturned
    /\ \E getOk \in BOOLEAN, writeOk \in BOOLEAN, updateOk \in BOOLEAN :
          LET sourcePower == calculateSourcePower(args.maxSource, args.alpha,
                                                  4, args.time)
              maxPower    == getMaxPowerValue(LabelsBefore)
              pmax        == ClampPower(sourcePower, maxPower, args.RaplLimit)
          IN  result' =
                IF ~getOk
                  THEN Adjusted("failed to get node", 0, LabelsBefore,
                                PowerLimitBefore)
                ELSE IF sourcePower = 0
                  THEN Adjusted("calculated source power is zero", 0,
                                LabelsBefore, PowerLimitBefore)
                ELSE Adjusted(IF updateOk THEN "nil" ELSE "update failed",
                              sourcePower,
                              IF updateOk
                                THEN Put(LabelsBefore, PmaxAnnotation,
                                         FormatInt(pmax))
                                ELSE LabelsBefore,
                              IF writeOk THEN pmax ELSE PowerLimitBefore)
    /\ UNCHANGED <<args, controller>>

AdjustNext == adjustPowerCap

AdjustSpec == AdjustInit /\ [][AdjustNext]_vars

(***************************************************************************)
(* The short run under fairness.  A cycle that has started goes on to its  *)
(* end: none of its calls blocks for ever.  The select of the loop, when   *)
(* both ticker.C and pm.ctx.Done() are ready, picks one of them at random, *)
(* so the case of pm.ctx.Done(), ready again and again, is taken in the    *)
(* end.                                                                    *)
(***************************************************************************)
\* A step of AdjustPowerCap.
CycleStep ==
    \/ GetNodeFails \/ GetNode
    \/ NoMaxPower \/ ComputePower
    \/ SetAnnotations \/ ApplyPowerLimits \/ UpdateNode

LiveSpec ==
    /\ ShortRunInit
    /\ [][ShortRunNext]_vars
    /\ WF_vars(CycleStep)
    /\ SF_vars(SelectDone)

(***************************************************************************)
(* The short run with an operator who changes the max power annotation of  *)
(* the node by hand.                                                       *)
(***************************************************************************)
\* The max power an operator may set.
OperatorMaxPower == 30000000

\* The operator updates rapl/max_power_uw; the node's resourceVersion
\* changes.
ExternalWriteMaxPower ==
    /\ Running
    /\ pc # "select"
    /\ MaxPowerAnnotation \in DOMAIN annotations
    /\ annotations[MaxPowerAnnotation] # FormatInt(OperatorMaxPower)
    /\ annotations' = Put(annotations, MaxPowerAnnotation,
                          FormatInt(OperatorMaxPower))
    /\ nodeModified' = TRUE
    /\ UNCHANGED <<calculator, config, hardware, files, store, environment,
                   pc, load, cycle, rpc, ref, wroteRemote, ghosts>>

OperatorNext == ShortRunNext \/ ExternalWriteMaxPower

OperatorSpec == ShortRunInit /\ [][OperatorNext]_vars

(***************************************************************************)
(* The short run with the wall clock moving on: a later cycle may fall in  *)
(* another market period than an earlier one.  The midnight goroutine      *)
(* stays asleep.                                                           *)
(***************************************************************************)
PeriodsNext == ShortRunNext \/ ClockAdvances

PeriodsSpec == ShortRunInit /\ [][PeriodsNext]_vars

(***************************************************************************)
(* Manager.applyPowerLimits(node, pmax) on its own, over several domains:  *)
(* the node object is annotated, the limit is written to the power limit   *)
(* files, some writes failing, and the node is updated, which succeeds or  *)
(* fails.                                                                  *)
(***************************************************************************)
LimitsInit ==
    /\ NewManager(Deployment(10000000, DomainNormal,
                             InitializedBefore(FormatInt(35000000)),
                             NoFile, NoFile))
    /\ args \in [domains : ShapeLists, pmax : AppliedValues]
    /\ result = NotReturned

applyPowerLimits ==
    /\ result = NotReturned
    /\ \E failing \in SUBSET ConstraintPaths(args.domains, "limit"),
          updateOk \in BOOLEAN :
          LET node == AnnotatedNode(annotations, args.pmax, clock, currentData)
              done == WriteDomains(args.domains, 1, failing)
          IN  result' = [errors  |-> done.errors,
                         files   |-> FilesAfter(FilesBefore(args.domains),
                                                done.attempts, failing,
                                                args.pmax),
                         updated |-> updateOk,
                         node    |-> IF updateOk THEN node ELSE annotations]
    /\ UNCHANGED <<args, controller>>

LimitsNext == applyPowerLimits

LimitsSpec == LimitsInit /\ [][LimitsNext]_vars

(***************************************************************************)
(* Properties.                                                             *)
(***************************************************************************)
\* The cycle has determined the limit to apply (pmax) and not yet returned.
LimitDetermined == pc \in {"annotate", "applyHW", "updateNode"}

\* C1: for a configuration whose floor is at most the ceiling read in the
\* cycle, every value AdjustPowerCap hands to ApplyPowerLimits lies between
\* the floor and that ceiling.
C1_AppliedWithinFloorAndCeiling ==
    (LimitDetermined /\ config.RaplLimit <= cycle.maxPower)
        => (config.RaplLimit <= cycle.pmax /\ cycle.pmax <= cycle.maxPower)

\* A cycle about to write a limit strictly between floor and ceiling.
C1_Witness ==
    /\ pc = "applyHW"
    /\ config.RaplLimit < cycle.pmax
    /\ cycle.pmax < cycle.maxPower

\* C2: the applied value is the ceiling when the target exceeds the ceiling,
\* otherwise the target when it exceeds the floor, otherwise the floor; a
\* target of 40000000 with ceiling 35000000 and floor 10000000 gives 35000000.
C2_AppliedIsClampOfTarget ==
    /\ LimitDetermined =>
         cycle.pmax = (IF cycle.sourcePower > cycle.maxPower
                         THEN cycle.maxPower
                       ELSE IF cycle.sourcePower > config.RaplLimit
                         THEN cycle.sourcePower
                       ELSE config.RaplLimit)
    /\ ClampPower(40000000, 35000000, 10000000) = 35000000

\* A cycle whose target exceeds the ceiling and which applies the ceiling.
C2_Witness ==
    /\ pc = "applyHW"
    /\ cycle.sourcePower > cycle.maxPower
    /\ cycle.pmax = cycle.maxPower

\* The limit the cycle persists: the pmax annotation of the node object it
\* is about to send.
PersistedLimit == cycle.node[PmaxAnnotation]

\* C3 as stated: whenever the calculator returns 0 for a cycle, the value
\* applied to hardware and persisted in that cycle is the configured floor.
C3_ZeroAlwaysGivesFloor ==
    /\ (LimitDetermined /\ cycle.calc = 0) => cycle.pmax = config.RaplLimit
    /\ (pc = "updateNode" /\ cycle.calc = 0)
          => PersistedLimit = FormatInt(config.RaplLimit)

\* C3, amended: whenever the calculator returns 0 for a cycle and the floor
\* is at most the ceiling read in that cycle, the value applied to hardware
\* and persisted in that cycle is the configured floor; when the floor
\* exceeds the ceiling, it is the ceiling.
C3_ZeroGivesFloorUnderCeiling ==
    /\ (LimitDetermined /\ cycle.calc = 0) =>
          cycle.pmax = (IF config.RaplLimit <= cycle.maxPower
                          THEN config.RaplLimit ELSE cycle.maxPower)
    /\ (pc = "updateNode" /\ cycle.calc = 0) =>
          PersistedLimit = FormatInt(IF config.RaplLimit <= cycle.maxPower
                                       THEN config.RaplLimit ELSE cycle.maxPower)

\* A cycle whose period is absent from a non-empty dataset and which is
\* about to persist the floor.
C3_Witness ==
    /\ pc = "updateNode"
    /\ cycle.calc = 0
    /\ Len(cycle.data) > 0
    /\ \A i \in 1..Len(cycle.data) : cycle.data[i].Period # cycle.period
    /\ config.RaplLimit <= cycle.maxPower
    /\ PersistedLimit = FormatInt(config.RaplLimit)

\* The period of the call of the calculator, whether the dataset has a point
\* for it, the volume of the first such point, and the largest volume.
CalledPeriod == GetCurrentPeriod(args.time[1], args.time[2])
PeriodPresent == \E i \in 1..Len(args.data) : args.data[i].Period = CalledPeriod
PeriodVolume ==
    LET first == CHOOSE i \in 1..Len(args.data) :
                     /\ args.data[i].Period = CalledPeriod
                     /\ \A j \in 1..(i - 1) : args.data[j].Period # CalledPeriod
    IN  args.data[first].Volume
LargestVolume ==
    CHOOSE v \in {args.data[i].Volume : i \in 1..Len(args.data)} :
        \A i \in 1..Len(args.data) : args.data[i].Volume <= v

\* C4 as stated: if the current period is present and its volume equals the
\* dataset's maximum volume, the computed power equals the reference max; if
\* the period is absent, the computed power is 0.
C4_MaxVolumeGivesReferenceMax ==
    result # NotReturned =>
        /\ (PeriodPresent /\ PeriodVolume = LargestVolume)
              => result[1] = args.maxSource
        /\ ~PeriodPresent => result[1] = 0

\* C4, amended: if the current period is present and the volume of its
\* first point equals the dataset's maximum volume and that maximum is
\* positive, the computed power equals the reference max; if the period is
\* absent, or the volume of its first point is 0, the computed power is 0.
C4_PositiveMaxVolumeGivesReferenceMax ==
    result # NotReturned =>
        /\ (PeriodPresent /\ PeriodVolume = LargestVolume /\ LargestVolume > 0)
              => result[1] = args.maxSource
        /\ ~PeriodPresent => result[1] = 0
        /\ (PeriodPresent /\ PeriodVolume = 0) => result[1] = 0

\* The calculator has returned a positive reference max for a period that
\* holds the day's largest volume.
C4_Witness ==
    /\ result # NotReturned
    /\ PeriodPresent
    /\ PeriodVolume = LargestVolume
    /\ LargestVolume > 0
    /\ args.maxSource > 0
    /\ result[1] = args.maxSource

\* C5: InitializeNode on a node that carries the initialization marker
\* issues no remote write and leaves every annotation as it is.
C5_InitializedNodeIsLeftAlone ==
    [][(pc = "InitializeNode" /\ InitializationAnnotation \in DOMAIN annotations)
          => (annotations' = annotations /\ ~wroteRemote')]_vars

\* InitializeNode has returned from a node that carried the marker.
C5_Witness ==
    /\ pc = "Run"
    /\ initOutcome = "skipped"
    /\ InitializationAnnotation \in DOMAIN annotations

\* C6: LoadData(D) without a file for day D attempts RefreshData(D); if that
\* fails it loads and caches the file of day D-1; if that file is absent (or
\* holds no record) LoadData fails and the cached dataset and max volume are
\* as they were.
C6_LoadFallsBackToYesterday ==
    (pc = "InitializeNode" /\ ~load.found) =>
        /\ load.refreshed # "none"
        /\ load.refreshed = "failed" =>
              IF CanLoad(files[load.day - 1])
                THEN /\ load.result = "ok"
                     /\ currentData = loadFromCSV(files[load.day - 1])
                     /\ maxVolume = updateMaxVolume(currentData)
                ELSE /\ load.result = "failed"
                     /\ currentData = load.data0
                     /\ maxVolume = load.mv0

\* LoadData has returned the dataset of yesterday after a failed refresh.
C6_Witness ==
    /\ pc = "InitializeNode"
    /\ ~load.found
    /\ load.refreshed = "failed"
    /\ load.result = "ok"
    /\ Len(currentData) > 0
    /\ currentData = loadFromCSV(files[load.day - 1])

\* C7: a failed RefreshData leaves the cached dataset and the cached max
\* volume as they were when it was called.
C7_FailedRefreshKeepsCache ==
    (rpc = "done" /\ ref.result = "failed")
        => (currentData = ref.data0 /\ maxVolume = ref.mv0)

\* A cycle that reads the dataset cached before a failed midnight refresh.
C7_Witness ==
    /\ rpc = "done"
    /\ ref.caller = "midnight"
    /\ ref.result = "failed"
    /\ Len(ref.data0) > 0
    /\ pc = "readMaxVolume"
    /\ cycle.data = ref.data0

\* The midnight goroutine has returned.
RefreshGoroutineEnded == Running /\ rpc = "done" /\ ref.caller = "midnight"

\* C8: while the controller is running, the day the clock shows, if it is
\* later than the day Run was entered, has had its RefreshData call, unless
\* the goroutine is still asleep or still busy with a call.
C8_RefreshAtEveryMidnight ==
    (Running /\ clock.day > runStartDay)
        => (clock.day \in attempted \/ ~RefreshGoroutineEnded)

\* The first midnight refresh has been attempted while running.
C8_Witness ==
    /\ Running
    /\ clock.day = runStartDay + 1
    /\ clock.day \in attempted

\* The midnight RefreshData call is fetching, saving or updating the cache.
RefreshExecuting ==
    ref.caller = "midnight" /\ rpc \in {"fetch", "save", "setData", "zeroMax", "scan"}
\* An AdjustPowerCap call has read the node and has not yet returned.
CycleInProgress == pc \in {"readMaxVolume", "annotate", "applyHW", "updateNode"}

\* C9: the midnight refresh never executes while an AdjustPowerCap cycle is
\* in progress.
C9_RefreshNeverOverlapsCycle == ~(RefreshExecuting /\ CycleInProgress)

\* A midnight refresh executes while the loop waits in its select.
C9_Witness == RefreshExecuting /\ pc = "select"

\* C10: the max volume a cycle has read is the largest volume of the dataset
\* it has read.
C10_CycleReadsMatchingMaxVolume ==
    LimitDetermined => cycle.maxVolume = updateMaxVolume(cycle.data)

\* A cycle has read a non-empty dataset and its max volume.
C10_Witness ==
    /\ LimitDetermined
    /\ Len(cycle.data) > 0
    /\ cycle.maxVolume = updateMaxVolume(cycle.data)

\* C11: once pm.ctx is done no new AdjustPowerCap call starts, even if a tick
\* is pending when the loop comes back to its select.
C11_NoCycleStartsAfterCancel ==
    [][cancelled => cycles' = cycles]_vars

\* Run has returned on cancellation although a tick was pending.
C11_Witness ==
    /\ pc = "exited"
    /\ cancelled
    /\ tickPending

\* C12: a cycle that has reached its updateNode call, the hardware limit
\* written, can still have its update accepted: a cancellation of pm.ctx that
\* arrived during the cycle does not prevent the remote write.
C12_CycleInFlightCompletesRemoteWrite ==
    (pc = "updateNode" /\ ~nodeModified) => ENABLED UpdateNodeAccepted

\* A cycle wrote a new limit to the hardware, pm.ctx was cancelled before its
\* updateNode, and the node still carries the previous limit.
C12_Witness ==
    /\ pc = "select"
    /\ cancelled
    /\ wroteRemote
    /\ Len(limits) >= 1
    /\ PmaxAnnotation \in DOMAIN annotations
    /\ annotations[PmaxAnnotation] # FormatInt(limits[1])
    /\ limits[1] # 20000000

\* The node read by the cycle carries no usable ceiling: the max power
\* annotation is missing or is not a decimal number.
CeilingUnusable ==
    \/ MaxPowerAnnotation \notin DOMAIN cycle.node
    \/ cycle.node[MaxPowerAnnotation][1] # "int"

\* C13: a cycle that finds the max power annotation missing or unparseable
\* ends at once: its next step returns to the loop without a hardware write
\* and without a call of updateNode, the power limit files and the node's
\* annotations being as they were; and no cycle determines a limit, annotates
\* the node or writes without a usable ceiling.
C13_UnusableCeilingSkipsCycle ==
    /\ [][(pc = "readMaxVolume" /\ CeilingUnusable)
            => /\ pc' = "select"
               /\ limits' = limits
               /\ annotations' = annotations
               /\ ~wroteRemote']_vars
    /\ [](LimitDetermined => ~CeilingUnusable)

\* A cycle has read a node without the annotation and can only be abandoned.
C13_Witness ==
    /\ pc = "readMaxVolume"
    /\ MaxPowerAnnotation \notin DOMAIN cycle.node
    /\ ENABLED NoMaxPower
    /\ ~ENABLED ComputePower

\* Some power_limit_uw file does not hold the limit of the cycle that is at
\* its updateNode call: the write to it failed.
HardwareWriteFailed ==
    /\ pc = "updateNode"
    /\ \E i \in DOMAIN limits : limits[i] # cycle.pmax

\* The annotations carry the limit pmax, a timestamp and the provider.
CarriesLimit(ann, pmax) ==
    /\ {PmaxAnnotation, "rapl/last-update", "rapl/provider"} \subseteq DOMAIN ann
    /\ ann[PmaxAnnotation] = FormatInt(pmax)
    /\ ann["rapl/provider"] = DataProvider

\* C14: whatever writes fail in rapl.Manager.ApplyPowerLimits, the cycle goes
\* on to updateNode with the node object carrying the attempted limit, the
\* timestamp and the provider; after failed hardware writes the update can be
\* accepted exactly as after successful ones, and once accepted the node
\* carries the attempted limit; the cycle ends with what updateNode returns.
C14_HardwareFailureDoesNotAbortCycle ==
    /\ [][(pc = "applyHW" /\ pc' # pc)
            => /\ pc' = "updateNode"
               /\ cycle' = cycle
               /\ CarriesLimit(cycle.node, cycle.pmax)]_vars
    /\ [][(HardwareWriteFailed /\ pc' # pc)
            => /\ pc' = "select"
               /\ wroteRemote'
               /\ \/ annotations' = annotations
                  \/ CarriesLimit(annotations', cycle.pmax)]_vars
    /\ []((HardwareWriteFailed /\ ~cancelled /\ ~nodeModified)
            => ENABLED UpdateNodeAccepted)

\* The first cycle has ended with its update accepted while one of the two
\* hardware writes had failed: the node carries a limit that only the first
\* power_limit_uw file holds.
C14_Witness ==
    /\ pc = "select"
    /\ cycles = 1
    /\ wroteRemote
    /\ "rapl/last-update" \in DOMAIN annotations
    /\ Len(limits) = 2
    /\ annotations[PmaxAnnotation] = FormatInt(limits[1])
    /\ annotations[PmaxAnnotation] # FormatInt(limits[2])

\* C15: once in Run the controller leaves it only through the Done case of
\* the select, taken when pm.ctx is done; every cycle, whatever failed in it,
\* comes back to the select, where the ticker can still fire and a pending
\* tick can start the next cycle (up to the number of cycles considered).
C15_FailedCycleDoesNotStopController ==
    /\ [][(Running /\ ~Running')
            => (pc = "select" /\ cancelled /\ pc' = "exited")]_vars
    /\ [][(Running /\ pc # "select" /\ pc' = "select")
            => (tickPending' = tickPending /\ cycles' = cycles)]_vars
    /\ []((pc = "select" /\ ~tickPending) => ENABLED TickerFires)
    /\ []((pc = "select" /\ tickPending /\ cycles < MaxCycles)
            => ENABLED SelectTick)

\* Every cycle so far failed for want of a usable ceiling, and the second
\* one has been started by a tick all the same.
C15_Witness ==
    /\ cycles = 2
    /\ pc = "readMaxVolume"
    /\ CeilingUnusable
    /\ ~cancelled
    /\ annotations = cycle.node

\* main is in its call of pm.LoadData(today).
Loading == pc \in {"LoadData", "LoadRefresh", "LoadCSV"}

\* What a cycle applies when the calculator has nothing to compute from: the
\* floor, brought down to the ceiling read in the cycle if it exceeds it.
FloorUnderCeiling ==
    IF config.RaplLimit <= cycle.maxPower THEN config.RaplLimit
    ELSE cycle.maxPower

\* C16 as stated: LoadData never ends the program, and a cycle that read an
\* empty dataset and a valid ceiling hands exactly the floor to the hardware.
C16_EmptyDatasetAppliesFloor ==
    /\ [][Loading => (Loading' \/ pc' = "InitializeNode")]_vars
    /\ []((LimitDetermined /\ cycle.data = <<>>)
            => cycle.pmax = config.RaplLimit)

\* C16, amended: LoadData never ends the program: whether it fails or not,
\* main goes on to InitializeNode, whose steps do not depend on what LoadData
\* returned; and a cycle that read an empty dataset and a valid ceiling hands
\* to the hardware the floor if the floor is at most that ceiling, and the
\* ceiling otherwise.
C16_EmptyDatasetAppliesFloorUnderCeiling ==
    /\ [][Loading => (Loading' \/ pc' = "InitializeNode")]_vars
    /\ []((pc = "InitializeNode" /\ load.result = "failed")
            => /\ isNodeInitialized(annotations) => ENABLED InitializeNodeSkips
               /\ (~isNodeInitialized(annotations)
                     /\ FindMaxPowerValue(domain) # 0)
                    => ENABLED InitializeNodeWrites)
    /\ []((LimitDetermined /\ cycle.data = <<>>)
            => cycle.pmax = FloorUnderCeiling)
    /\ [][(pc = "applyHW" /\ cycle.data = <<>>)
            => \A i \in DOMAIN limits :
                  limits'[i] \in {limits[i], FloorUnderCeiling}]_vars

\* The file of today could not be loaded, the node was initialized all the
\* same, and the first cycle has written the floor to the hardware.
C16_Witness ==
    /\ pc = "updateNode"
    /\ initOutcome = "written"
    /\ currentData = <<>>
    /\ cycle.data = <<>>
    /\ config.RaplLimit <= cycle.maxPower
    /\ Len(limits) >= 1
    /\ limits[1] = config.RaplLimit
    /\ limits[1] # 20000000

\* Discovery found no domain with at least one constraint.
NoUsableDomain ==
    Len(domain.Constraints) = 0 /\ Len(domain.ConstraintsMax) = 0

\* C17: when discovery found no usable domain the controller never enters
\* Run and never starts a cycle, whether the node is initialized or not.
C17_NoDomainNeverRuns ==
    NoUsableDomain => (~Running /\ pc \notin {"Run", "exited"} /\ cycles = 0)

\* On a node that is not initialized startup does end fatally, in
\* InitializeNode, for want of a max power value.
C17_Witness ==
    /\ NoUsableDomain
    /\ pc = "fatal"
    /\ initOutcome = "no-max"

\* C18: a cycle does not end at its getNode call: when the node cannot be
\* read the cycle still goes on to compute and apply a limit to the hardware.
C18_CycleGoesOnWithoutNode ==
    [][pc = "getNode" => pc' # "select"]_vars

\* The first cycle has ended without a call of updateNode although the node
\* carries a valid ceiling: its getNode failed, and the power limit file
\* holds what it held at discovery.
C18_Witness ==
    /\ pc = "select"
    /\ cycles = 1
    /\ ~wroteRemote
    /\ ~cancelled
    /\ MaxPowerAnnotation \in DOMAIN annotations
    /\ annotations[MaxPowerAnnotation] = FormatInt(35000000)
    /\ limits = <<20000000>>

\* y is x in the file's precision: a multiple of 10 units at most 5 units
\* away from x.
RoundedFrom(y, x) ==
    /\ y % 10 = 0
    /\ y - x <= 5
    /\ x - y <= 5

\* LoadData(today) has returned the content of the file that SaveData wrote
\* for today in the same run.
LoadedWhatWasSaved ==
    /\ pc = "InitializeNode"
    /\ load.result = "ok"
    /\ load.refreshed = "ok"
    /\ load.path = load.day

\* C19: a non-empty dataset saved for a day and loaded back for that day
\* comes back with the same length, the same labels in the same order, each
\* volume rounded to 1 decimal and each price rounded to 2 decimals.
C19_SaveThenLoadRoundTrip ==
    LoadedWhatWasSaved =>
        /\ Len(currentData) = Len(args.data)
        /\ \A i \in 1..Len(args.data) :
              /\ currentData[i].Period = args.data[i].Period
              /\ RoundedFrom(currentData[i].Volume, args.data[i].Volume)
              /\ RoundedFrom(currentData[i].Price, args.data[i].Price)

\* A dataset of two points with one label came back, rounded and not equal
\* to what was saved.
C19_Witness ==
    /\ LoadedWhatWasSaved
    /\ Len(args.data) = 2
    /\ args.data[1].Period = args.data[2].Period
    /\ args.data[1].Volume = 8996
    /\ currentData[1].Volume = 9000
    /\ args.data[2].Price = -45678
    /\ currentData[2].Price = -45680

\* The annotations applyPowerLimits sets on the node object.
PatchKeys == {PmaxAnnotation, "rapl/last-update", "rapl/provider",
              "rapl/market-period", "rapl/market-volume", "rapl/market-price"}

\* C20: the step that ends a cycle's updateNode call never changes or removes
\* an annotation that applyPowerLimits does not set, whoever wrote it and
\* whenever; and when the node was updated by someone else after the cycle
\* read it, that step leaves all annotations as they are and ends the cycle:
\* the update is rejected and not tried again.
C20_UpdateKeepsOtherWriters ==
    /\ [][(pc = "updateNode" /\ pc' # pc)
            => \A k \in (DOMAIN annotations) \ PatchKeys :
                  /\ k \in DOMAIN annotations'
                  /\ annotations'[k] = annotations[k]]_vars
    /\ [][(pc = "updateNode" /\ nodeModified /\ pc' # pc)
            => /\ annotations' = annotations
               /\ pc' = "select"
               /\ cycle' = IdleCycle]_vars

\* A cycle wrote a new limit to the hardware, someone else annotated the node
\* between its getNode and its updateNode, and the cycle has ended with the
\* other writer's annotation in place and none of its own written.
C20_Witness ==
    /\ pc = "select"
    /\ cycles = 1
    /\ wroteRemote
    /\ nodeModified
    /\ ~cancelled
    /\ ForeignAnnotation \in DOMAIN annotations
    /\ "rapl/last-update" \notin DOMAIN annotations
    /\ Len(limits) >= 1
    /\ limits[1] # 20000000

\* C21: no step of the controller removes an annotation from the node (the
\* other writer of the model removes none either), and an initialization
\* marker that is on the node stays on it with its value, whoever set it.
C21_NoAnnotationIsRemoved ==
    /\ [][DOMAIN annotations \subseteq DOMAIN annotations']_vars
    /\ [][(InitializationAnnotation \in DOMAIN annotations)
            => /\ InitializationAnnotation \in DOMAIN annotations'
               /\ annotations'[InitializationAnnotation]
                    = annotations[InitializationAnnotation]]_vars

\* The node was initialized by this run, someone else annotated it, and a
\* cycle's update has been accepted since: the marker, the max power and the
\* other writer's annotation are all there.
C21_Witness ==
    /\ pc = "select"
    /\ initOutcome = "written"
    /\ wroteRemote
    /\ "rapl/last-update" \in DOMAIN annotations
    /\ ForeignAnnotation \in DOMAIN annotations
    /\ InitializationAnnotation \in DOMAIN annotations
    /\ annotations[InitializationAnnotation] = InitializedValue
    /\ MaxPowerAnnotation \in DOMAIN annotations

\* The entry is a domain directory with a constraint file of either kind.
HasConstraint(e) ==
    /\ e.isDomain
    /\ \E j \in 1..Len(e.files) :
          e.files[j].kind \in {"power_limit_uw", "max_power_uw"}

\* The values discovery is to record for the files of one kind of an entry:
\* the content of a readable file, "0" for an unreadable one.
ExpectedValues(e, kind) ==
    LET ofKind == SelectSeq(e.files, LAMBDA f : f.kind = kind)
    IN  [j \in 1..Len(ofKind) |->
            IF ofKind[j].readable THEN ofKind[j].content ELSE FormatInt(0)]

\* The base directory and every domain directory in it can be listed.
DirectoriesReadable ==
    /\ args.readable
    /\ \A i \in 1..Len(args.entries) :
          args.entries[i].isDomain => args.entries[i].readable

\* C22: when the directories can be listed DiscoverDomains returns no error,
\* whatever constraint files cannot be read; it keeps, in order, exactly the
\* domains that have a constraint file of either kind, each with the values
\* of its readable files as read and "0" for its unreadable ones; a domain
\* without constraint files is left out.
C22_DiscoveryToleratesUnreadableValues ==
    (result # NotReturned /\ DirectoriesReadable) =>
        LET kept == SelectSeq(args.entries, HasConstraint)
        IN  /\ ~result[1].err
            /\ Len(result[1].domains) = Len(kept)
            /\ \A k \in 1..Len(kept) :
                  /\ result[1].domains[k].Constraints
                       = ExpectedValues(kept[k], "power_limit_uw")
                  /\ result[1].domains[k].ConstraintsMax
                       = ExpectedValues(kept[k], "max_power_uw")

\* A directory with a domain without constraint files and a domain whose
\* max power file is unreadable and whose power limit file reads 20000000:
\* discovery returned the second domain only, with "0" as max power.
C22_Witness ==
    /\ result # NotReturned
    /\ ~result[1].err
    /\ Len(args.entries) = 2
    /\ args.entries[1] = DirEntry(TRUE, TRUE, <<>>)
    /\ result[1].domains
         = << [Constraints    |-> <<FormatInt(20000000)>>,
               ConstraintsMax |-> <<FormatInt(0)>>] >>

\* Minutes from the start of the sine curve's cycle of 32 hours, which
\* begins at MaxHour o'clock: the sine is positive in the first 16 hours,
\* at its peak after 8, and negative in the last 16.
CyclePosition(time) == (60 * time[1] + time[2] - 60 * args.maxHour) % 1920

\* C23: with an even alpha the calculator returns 0 at every time at which
\* the sine is negative, and between the start of the positive half-cycle
\* and its peak a later time never gives less than an earlier one, and
\* gives more when the reference max is positive.
C23_ZeroOutsidePositiveHalfCycle ==
    result # NotReturned =>
        /\ CyclePosition(args.time) > 960 => result[1] = 0
        /\ (CyclePosition(args.time) < CyclePosition(args.later)
              /\ CyclePosition(args.later) <= 480)
             => /\ result[1] <= result[2]
                /\ args.maxSource > 0 => result[1] < result[2]

\* With alpha 4 and a reference max of 40000000 the calculator returned
\* 2500000 at 06:40 and 40000000 at the peak of the curve, 12:00.
C23_Witness ==
    /\ result = <<2500000, 40000000>>
    /\ args.alpha = 4
    /\ args.maxHour = 4
    /\ args.time = <<6, 40>>
    /\ args.later = <<12, 0>>

\* The steps of an adjustment cycle in the order of the code: the node is
\* read, the ceiling is taken from it and the limit computed, the node
\* object is annotated, the hardware is written, the node is updated.
CycleOrder ==
    { <<"getNode", "readMaxVolume">>, <<"readMaxVolume", "annotate">>,
      <<"annotate", "applyHW">>, <<"applyHW", "updateNode">>,
      <<"updateNode", "select">>,
      <<"getNode", "select">>, <<"readMaxVolume", "select">>,
      <<"select", "getNode">> }

\* C24: a running controller moves through a cycle in the order read,
\* compute, hardware write, remote write, leaving it early only before the
\* hardware write; the power limit files change only in the hardware write
\* step, to the limit computed from the ceiling read in this cycle, and the
\* node changes only in the update step that follows it, to the object
\* carrying that limit.
C24_CycleStepsInOrder ==
    /\ [][(Running /\ Running' /\ pc' # pc) => <<pc, pc'>> \in CycleOrder]_vars
    /\ [][(limits' # limits)
            => /\ pc = "applyHW" /\ pc' = "updateNode"
               /\ cycle.maxPower = ParseInt(cycle.node[MaxPowerAnnotation])
               /\ cycle.pmax = ClampPower(cycle.sourcePower, cycle.maxPower,
                                          config.RaplLimit)
               /\ \A i \in DOMAIN limits :
                     limits'[i] \in {limits[i], cycle.pmax}]_vars
    /\ [][(Running /\ annotations' # annotations)
            => /\ pc = "updateNode" /\ pc' = "select"
               /\ annotations' = cycle.node
               /\ annotations'[PmaxAnnotation] = FormatInt(cycle.pmax)]_vars

\* A cycle has gone through all its steps: the power limit file and the
\* node carry the same new limit.
C24_Witness ==
    /\ pc = "select"
    /\ wroteRemote
    /\ "rapl/last-update" \in DOMAIN annotations
    /\ Len(limits) = 1
    /\ limits[1] # 20000000
    /\ annotations[PmaxAnnotation] = FormatInt(limits[1])

\* C25: an AdjustPowerCap call starts only when Run is entered or from the
\* select of the loop, where no call is in progress; a tick delivered during
\* a cycle stays in ticker.C until the loop is back at its select, and is
\* consumed there by the start of the next cycle.
C25_CyclesNeverOverlap ==
    /\ [][(cycles' # cycles)
            => /\ pc \in {"Run", "select"}
               /\ cycle = IdleCycle
               /\ pc' = "getNode"
               /\ cycles' = cycles + 1]_vars
    /\ [](pc \in {"Run", "select"} => cycle = IdleCycle)
    /\ [][(tickPending /\ ~tickPending')
            => (pc = "select" /\ pc' = "getNode")]_vars
    /\ [][(tickPending /\ Running /\ pc # "select" /\ pc' # pc)
            => (tickPending' /\ cycles' = cycles)]_vars

\* A tick was delivered during the first cycle, which has written the
\* hardware and is about to update the node.
C25_Witness ==
    /\ pc = "updateNode"
    /\ cycles = 1
    /\ tickPending
    /\ cycle # IdleCycle

\* C26: the step that enters Run starts the first AdjustPowerCap call at
\* once, no tick having been received; the loop is reached only after that
\* call, which is the only one until then; however the first call ends, it
\* ends at the select of the loop; every later call consumes a tick.
C26_InitialCycleRunsAtOnce ==
    /\ [][(pc = "Run" /\ pc' # pc)
            => /\ pc' = "getNode"
               /\ cycles' = 1
               /\ ~tickPending']_vars
    /\ [](Running => cycles >= 1)
    /\ [][(Running /\ cycles = 1 /\ pc # "select" /\ pc' # pc)
            => /\ cycles' = 1
               /\ pc' \in {"readMaxVolume", "annotate", "applyHW",
                           "updateNode", "select"}]_vars
    /\ [][(Running /\ cycles' # cycles)
            => (pc = "select" /\ tickPending /\ ~tickPending')]_vars

\* The first cycle left the power limit file and the node as they were, and
\* the loop has started all the same: a tick has started the second cycle.
C26_Witness ==
    /\ pc = "getNode"
    /\ cycles = 2
    /\ ~cancelled
    /\ limits = <<20000000>>
    /\ MaxPowerAnnotation \in DOMAIN annotations
    /\ "rapl/last-update" \notin DOMAIN annotations

\* main is in InitializeNode on a node without the initialization marker.
InitializingFreshNode ==
    /\ pc = "InitializeNode"
    /\ InitializationAnnotation \notin DOMAIN annotations

\* C27: on a node without the marker, InitializeNode either succeeds, and
\* then the node carries the max power found by FindMaxPowerValue, the
\* provider and the marker, and main goes on to Run; or it fails, and then
\* the node's annotations are what they were and the program has ended.
\* It fails whenever FindMaxPowerValue finds no value.  An ended program
\* takes no further step.
C27_InitializationIsAllOrNothing ==
    /\ [][(InitializingFreshNode /\ pc' # pc)
            => \/ /\ pc' = "Run"
                  /\ FindMaxPowerValue(domain) > 0
                  /\ {MaxPowerAnnotation, "rapl/provider",
                      InitializationAnnotation} \subseteq DOMAIN annotations'
                  /\ annotations'[MaxPowerAnnotation]
                       = FormatInt(FindMaxPowerValue(domain))
                  /\ annotations'["rapl/provider"] = DataProvider
                  /\ annotations'[InitializationAnnotation] = InitializedValue
               \/ /\ pc' = "fatal"
                  /\ annotations' = annotations]_vars
    /\ [][pc = "fatal" => pc' = "fatal"]_vars
    /\ [](pc = "fatal" => cycles = 0)

\* A fresh node has been initialized with the max power 35000000 and main
\* is about to enter Run.
C27_Witness ==
    /\ pc = "Run"
    /\ initOutcome = "written"
    /\ annotations[MaxPowerAnnotation] = FormatInt(35000000)
    /\ annotations[InitializationAnnotation] = InitializedValue
    /\ annotations["rapl/provider"] = DataProvider

\* The label of the 15-minute bucket that contains the time, the day's last
\* bucket ending at 24:00.
BucketOf(time) ==
    LET start == (time[2] \div 15) * 15
    IN  IF start = 45
          THEN IF time[1] = 23 THEN Label(23, 45, 24, 0)
                               ELSE Label(time[1], 45, time[1] + 1, 0)
          ELSE Label(time[1], start, time[1], start + 15)

\* C28: GetCurrentPeriod returns, for every time of day, the label of the
\* 15-minute bucket containing it, "23:45-24:00" for the times from 23:45
\* to 23:59, and the providers' dataset has a point under that label.
C28_PeriodOfEveryTimeIsFound ==
    result # NotReturned
        => /\ result.period = BucketOf(args.time)
           /\ result.found

\* At 23:50 GetCurrentPeriod returned "23:45-00:00", a label under which
\* the provider stores no point.
C28_Witness ==
    /\ result # NotReturned
    /\ args.time = <<23, 50>>
    /\ result.period = Label(23, 45, 0, 0)
    /\ ~result.found
    /\ Label(23, 45, 24, 0) \in PeriodsOf(args.provider)

\* The valid positive integers among the values of all constraints of both
\* kinds of the domains.
ValidPositiveValues(domains) ==
    {ParseInt(v) : v \in {w \in UNION {
          {domains[i].Constraints[j] : j \in 1..Len(domains[i].Constraints)}
          \cup {domains[i].ConstraintsMax[j] :
                    j \in 1..Len(domains[i].ConstraintsMax)}
          : i \in 1..Len(domains)} : ParseIntOk(w) /\ ParseInt(w) > 0}}

\* C29: the maximum returned is the largest valid positive integer among
\* the values of all constraints of both kinds; the call fails exactly when
\* there is no such value, as when there is no domain.
C29_MaximumOverBothKinds ==
    result # NotReturned
        => IF ValidPositiveValues(args.domains) = {}
             THEN result.err
             ELSE /\ ~result.err
                  /\ result.value \in ValidPositiveValues(args.domains)
                  /\ \A v \in ValidPositiveValues(args.domains) :
                         v <= result.value

\* The PowerManager found 20000000 in a domain whose power limit is
\* 35000000 and whose max power is 20000000.
C29_Witness ==
    /\ result # NotReturned
    /\ args.variant = "PowerManager"
    /\ args.domains = << [Constraints    |-> <<FormatInt(35000000)>>,
                          ConstraintsMax |-> <<FormatInt(20000000)>>] >>
    /\ ~result.err
    /\ result.value = 20000000

\* The elements of a sequence, each occurring once.
OnceEach(seq, set) ==
    /\ Len(seq) = Cardinality(set)
    /\ {seq[i] : i \in 1..Len(seq)} = set

\* C30: ApplyPowerLimits attempts one write to every power-limit constraint
\* of every domain, whichever writes fail; the errors returned are one per
\* failed constraint; the files written hold the value afterwards and no
\* max-power constraint has changed.
C30_ApplyWritesEveryLimitConstraint ==
    result # NotReturned
        => /\ OnceEach(result.attempts,
                       ConstraintPaths(args.domains, "limit"))
           /\ OnceEach(result.errors, result.failing)
           /\ \A p \in ConstraintPaths(args.domains, "limit") :
                  p \notin result.failing
                      => result.files[p] = FormatInt(args.pmax)
           /\ \A p \in ConstraintPaths(args.domains, "max") :
                  result.files[p] = FilesBefore(args.domains)[p]

\* With two domains of two power-limit constraints and one max-power
\* constraint each, the first write of the first domain failed and the
\* three others were done.
C30_Witness ==
    /\ result # NotReturned
    /\ Len(args.domains) = 2
    /\ \A d \in 1..2 : args.domains[d] = [limit |-> 2, max |-> 1]
    /\ result.failing = { <<1, "limit", 1>> }
    /\ result.errors = << <<1, "limit", 1>> >>
    /\ result.files[<<1, "limit", 2>>] = FormatInt(args.pmax)
    /\ result.files[<<2, "limit", 2>>] = FormatInt(args.pmax)
    /\ result.files[<<1, "limit", 1>>] = FormatInt(20000000)

\* C31: whenever applyPowerLimits writes the market period, volume and price
\* to the node object, they are those of the point of the period and of the
\* dataset AdjustPowerCap read at the start of the cycle, from which the
\* limit of the cycle was calculated.
C31_MarketContextMatchesTarget ==
    [][(pc = "annotate" /\ pc' = "applyHW"
          /\ FindPoint(currentData, PeriodAt(clock.t), 1) # 0)
        => LET k == FindPoint(cycle.data, cycle.period, 1)
           IN  /\ k # 0
               /\ cycle'.node["rapl/market-period"]
                     = <<"period", cycle.period>>
               /\ cycle'.node["rapl/market-volume"]
                     = <<"float", RoundTo10(cycle.data[k].Volume)>>
               /\ cycle'.node["rapl/market-price"]
                     = <<"float", RoundTo10(cycle.data[k].Price)>>]_vars

\* A cycle calculated its limit from the point of its period in the dataset
\* it read and is about to persist, with that limit, the volume of the point
\* of the same period in the dataset the midnight refresh has cached in the
\* meantime.
C31_Witness ==
    /\ pc = "updateNode"
    /\ cycle.calc > 0
    /\ cycle.node[PmaxAnnotation] = FormatInt(cycle.pmax)
    /\ currentData # cycle.data
    /\ LET k == FindPoint(cycle.data, cycle.period, 1)
           n == FindPoint(currentData, cycle.period, 1)
       IN  /\ k # 0
           /\ n # 0
           /\ "rapl/market-volume" \in DOMAIN cycle.node
           /\ cycle.node["rapl/market-period"] = <<"period", cycle.period>>
           /\ cycle.node["rapl/market-volume"]
                 = <<"float", RoundTo10(currentData[n].Volume)>>
           /\ cycle.node["rapl/market-volume"]
                 # <<"float", RoundTo10(cycle.data[k].Volume)>>

\* C32: an adjustment cycle makes its remote read, its hardware writes and
\* its remote write once each.  The node is read only when a new cycle
\* starts; the hardware is written to only by the one step that follows the
\* annotation of the node, each constraint getting the limit or keeping its
\* value; the update is sent only by the step that follows the hardware
\* writes, and whether it is accepted or rejected the cycle is over and the
\* loop is back at its select, the node object of a rejected update being
\* dropped.
C32_NoRetryWithinCycle ==
    /\ [][(pc' = "getNode" /\ pc # "getNode")
            => (pc \in {"Run", "select"} /\ cycles' = cycles + 1)]_vars
    /\ [][(pc = "getNode" /\ pc' # pc)
            => pc' \in {"readMaxVolume", "select"}]_vars
    /\ [][(pc' = "applyHW" /\ pc # pc') => pc = "annotate"]_vars
    /\ [][(pc = "applyHW" /\ pc' # pc)
            => /\ pc' = "updateNode"
               /\ \A i \in 1..Len(limits) :
                      limits'[i] \in {limits[i], cycle.pmax}]_vars
    /\ [][limits' # limits => pc = "applyHW"]_vars
    /\ [][(pc = "updateNode" /\ pc' # pc)
            => /\ pc' = "select"
               /\ cycle' = IdleCycle
               /\ annotations' \in {annotations, cycle.node}]_vars

\* The update of the first cycle was rejected: the loop is back at its
\* select, the hardware limit is written and the node carries no trace of
\* the cycle.
C32_Witness ==
    /\ pc = "select"
    /\ wroteRemote
    /\ cycles = 1
    /\ cycle = IdleCycle
    /\ Len(limits) > 0
    /\ limits[1] = 10000000
    /\ "rapl/last-update" \notin DOMAIN annotations

\* Neither LoadData nor RefreshData (with the SaveData it calls) is in
\* progress.
StoreAtRest == ~Loading /\ rpc \in {"idle", "sleep", "done"}

\* C33: whenever no operation of the data store is in progress, the cached
\* max volume is the largest volume of the cached dataset if one of its
\* volumes is positive, and 0 otherwise.
C33_MaxVolumeMatchesCachedData ==
    StoreAtRest =>
        LET volumes == {currentData[i].Volume : i \in 1..Len(currentData)}
        IN  IF \E v \in volumes : v > 0
              THEN /\ maxVolume \in volumes
                   /\ \A v \in volumes : v <= maxVolume
              ELSE maxVolume = 0

\* A midnight refresh has succeeded and cached a dataset whose largest
\* volume, 8996, is neither its first nor its last.
C33_Witness ==
    /\ StoreAtRest
    /\ rpc = "done"
    /\ ref.caller = "midnight"
    /\ ref.result = "ok"
    /\ currentData = DataB
    /\ maxVolume = 8996

\* C34: in the controller with the time-curve strategy, a cycle in which
\* the calculator returns 0 is not skipped: it returns no error of its own,
\* and the floor is what it writes to the constraint and what it persists
\* as rapl/pmax.
C34_ZeroOnCurveAppliesFloor ==
    (/\ result # NotReturned
     /\ result.err # "failed to get node"
     /\ calculateSourcePower(args.maxSource, args.alpha, 4, args.time) = 0)
        => /\ result.err \in {"nil", "update failed"}
           /\ result.limit \in {args.RaplLimit, PowerLimitBefore}
           /\ result.err = "nil"
                 => result.labels[PmaxAnnotation] = FormatInt(args.RaplLimit)

\* At 04:00 with MaxSource 40000000 the calculator returned 0 and the cycle
\* ended with its error, the constraint and the labels being as before.
C34_Witness ==
    /\ result # NotReturned
    /\ args.time = <<4, 0>>
    /\ args.maxSource = 40000000
    /\ result.err = "calculated source power is zero"
    /\ result.limit = PowerLimitBefore
    /\ result.labels = LabelsBefore

\* C35: if pm.ctx is cancelled while the controller is running, and every
\* cycle that has started comes to its end, Run returns in the end.
C35_ShutdownTerminates == (Running /\ cancelled) ~> (pc = "exited")

\* Run has returned after a cancellation, no tick being left in ticker.C.
C35_Witness ==
    /\ pc = "exited"
    /\ cancelled
    /\ ~tickPending
    /\ cycles >= 1

\* C36: the marker reaches the node in the same update as the max power,
\* the initial limit and the provider: a step that makes the marker appear
\* makes the node carry all four, the max power a positive integer and the
\* limit equal to it; and on a node this run has initialized, as long as the
\* marker is there the max power is there with a positive integer value.
C36_InitializationIsOneWrite ==
    /\ [][(InitializationAnnotation \notin DOMAIN annotations
             /\ InitializationAnnotation \in DOMAIN annotations')
          => /\ {MaxPowerAnnotation, PmaxAnnotation, "rapl/provider"}
                    \subseteq DOMAIN annotations'
             /\ ParseIntOk(annotations'[MaxPowerAnnotation])
             /\ ParseInt(annotations'[MaxPowerAnnotation]) > 0
             /\ annotations'[PmaxAnnotation] = annotations'[MaxPowerAnnotation]
             /\ annotations'["rapl/provider"] = DataProvider]_vars
    /\ []((initOutcome = "written"
             /\ InitializationAnnotation \in DOMAIN annotations)
          => /\ MaxPowerAnnotation \in DOMAIN annotations
             /\ ParseIntOk(annotations[MaxPowerAnnotation])
             /\ ParseInt(annotations[MaxPowerAnnotation]) > 0)

\* On a node this run has initialized a cycle has persisted its limit, the
\* marker and the max power 35000000 being still there.
C36_Witness ==
    /\ initOutcome = "written"
    /\ pc = "select"
    /\ "rapl/last-update" \in DOMAIN annotations
    /\ InitializationAnnotation \in DOMAIN annotations
    /\ annotations[MaxPowerAnnotation] = FormatInt(35000000)

\* The max power annotation of a node: its value, or a value of its own
\* when the node has none.
MaxPowerOf(ann) ==
    IF MaxPowerAnnotation \in DOMAIN ann THEN ann[MaxPowerAnnotation]
    ELSE <<"absent">>

\* C37: the node's max power annotation changes only in InitializeNode or
\* at the hand of another writer: no step of an adjustment cycle and no
\* step of the data store changes it.  So on a node this run has
\* initialized, the max power a cycle reads is the one InitializeNode wrote
\* or one another writer has set since.
C37_MaxPowerWrittenOnlyAtInitialization ==
    /\ [][MaxPowerOf(annotations') # MaxPowerOf(annotations)
            => (pc = "InitializeNode" \/ ExternalWriteMaxPower)]_vars
    /\ []((initOutcome = "written" /\ LimitDetermined)
            => cycle.maxPower \in {FindMaxPowerValue(domain),
                                   OperatorMaxPower})

\* A cycle has read the max power an operator had set, has calculated its
\* limit under it and is about to send the node, which nobody has modified
\* since the cycle read it, with the operator's value on it.
C37_Witness ==
    /\ pc = "updateNode"
    /\ ~nodeModified
    /\ cycle.maxPower = OperatorMaxPower
    /\ cycle.pmax <= OperatorMaxPower
    /\ cycle.node[MaxPowerAnnotation] = FormatInt(OperatorMaxPower)
    /\ cycle.node[PmaxAnnotation] = FormatInt(cycle.pmax)

\* The keys applyPowerLimits sets in every cycle.
CoreKeys == {PmaxAnnotation, "rapl/last-update", "rapl/provider"}

\* C38: when the dataset has no point for the period of the time at which
\* applyPowerLimits annotates the node, the node object gets the limit, the
\* time and the provider, and every other annotation it was read with is
\* left as it was, the market period, volume and price among them; the
\* update, when accepted, makes the node carry that object.
C38_MarketContextLeftWithoutPoint ==
    /\ [][(/\ pc = "annotate"
           /\ pc' = "applyHW"
           /\ FindPoint(currentData, PeriodAt(clock.t), 1) = 0)
          => /\ DOMAIN cycle'.node = DOMAIN cycle.node \cup CoreKeys
             /\ \A k \in DOMAIN cycle.node \ CoreKeys :
                    cycle'.node[k] = cycle.node[k]
             /\ cycle'.node[PmaxAnnotation] = FormatInt(cycle.pmax)
             /\ cycle'.node["rapl/last-update"]
                    = <<"time", clock.day, clock.t>>
             /\ cycle'.node["rapl/provider"] = DataProvider]_vars
    /\ [][(pc = "updateNode" /\ annotations' # annotations)
          => annotations' = cycle.node]_vars

\* The node carries the time of a cycle made at 23:50 beside the market
\* period 12:00-12:15 persisted by an earlier cycle.
C38_Witness ==
    /\ pc = "select"
    /\ MarketKeys \subseteq DOMAIN annotations
    /\ annotations["rapl/last-update"][3] = 2
    /\ annotations["rapl/market-period"] = <<"period", Label(12, 0, 12, 15)>>
    /\ PeriodAt(2) # Label(12, 0, 12, 15)

\* C39: the power the market-based calculator returns to a cycle lies
\* between 0 and the reference max it was called with, the max power read
\* from the node: the calculated target never exceeds the node's max power.
C39_CalculatedPowerWithinReferenceMax ==
    LimitDetermined => (0 <= cycle.calc /\ cycle.calc <= cycle.maxPower)

\* A cycle has calculated a power above the max power it read: the volume
\* of its period in the dataset it read exceeds the max volume it read.
C39_Witness ==
    /\ LimitDetermined
    /\ cycle.calc > cycle.maxPower
    /\ cycle.maxVolume > 0
    /\ FindVolume(cycle.data, cycle.period, 1) > cycle.maxVolume
    /\ cycle.maxVolume # updateMaxVolume(cycle.data)

\* C40: after an applyPowerLimits call in which no hardware write failed
\* and the update of the node succeeded, every power limit file of every
\* domain holds the same value, and that value is the rapl/pmax the node
\* carries.
C40_HardwareAndNodeAgree ==
    (/\ result # NotReturned
     /\ result.errors = <<>>
     /\ result.updated)
        => \A p \in ConstraintPaths(args.domains, "limit") :
               /\ result.files[p] = result.node[PmaxAnnotation]
               /\ \A q \in ConstraintPaths(args.domains, "limit") :
                      result.files[p] = result.files[q]

\* With two domains of two power limit constraints each, every write and
\* the update succeeded: the four files and the node hold the limit.
C40_Witness ==
    /\ result # NotReturned
    /\ Len(args.domains) = 2
    /\ \A d \in 1..2 : args.domains[d].limit = 2
    /\ result.errors = <<>>
    /\ result.updated
    /\ result.node[PmaxAnnotation] = FormatInt(args.pmax)
    /\ \A p \in ConstraintPaths(args.domains, "limit") :
           result.files[p] = FormatInt(args.pmax)

====
